---- MODULE Spec2Model ----
(***************************************************************************)
(* State-machine model of the caption editor's core (Clip-Autosubs):       *)
(* the reactive store (src/frontend/store.js), the transcript handlers     *)
(* (TranscriptPanel.js), the group handlers (GroupsSidebar.js), the        *)
(* timeline handlers (Timeline.js) and the playback synchronizer           *)
(* (VideoPanel.js).                                                        *)
(*                                                                         *)
(* Conventions.  Times are integers in milliseconds (0.15 s = 150).        *)
(* JavaScript arrays are 0-based: an index i of the code addresses         *)
(* element i + 1 of the TLA+ sequence.  A text is a sequence of            *)
(* one-character strings, so that trim() and join(' ') are computed.       *)
(***************************************************************************)
EXTENDS Integers, Sequences, FiniteSets, TLC

\* ------------------------------------------------------------------ bounds
\* longest transcript the import delivers
MaxWords == 3
\* number of handler invocations explored after the transcript is loaded
MaxOps == 4
\* the longest transcript and the number of handler invocations of SpecAuto
MaxAutoWords == 4
MaxAutoOps == 3
\* the number of split points and of calls of getSegments of SpecSeg
MaxSplits == 3
MaxSegOps == 2
\* the longest transcript and the number of handler invocations of SpecMerge
MaxMergeWords == 4
MaxMergeOps == 7
\* the number of handler invocations of SpecPlay
MaxPlayOps == 3
\* the number of handler invocations of SpecCut
MaxCutOps == 9
\* the silence-cut jobs started, and the status polls in flight at a time
MaxJobs == 2
MaxInFlight == 2
\* the number of handler invocations of SpecStacks
MaxStackOps == 66
\* the number of handler invocations of SpecModes
MaxModeOps == 4
\* the number of handler invocations of SpecLive
MaxLiveOps == 5
\* the number of handler invocations of SpecCaption
MaxCaptionOps == 5
\* the number of handler invocations of SpecTiming
MaxTimingOps == 4
\* the number of handler invocations of SpecGroups
MaxGroupOps == 5
\* the number of handler invocations of SpecWords
MaxWordOps == 5
\* the number of handler invocations of SpecSplit
MaxSplitOps == 7
\* the number of handler invocations of SpecTrim
MaxTrimOps == 3
\* the number of handler invocations of SpecRender
MaxRenderOps == 7
\* the number of handler invocations of SpecDrag
MaxDragOps == 5
\* the number of handler invocations and of edits of SpecHistory
MaxHistOps == 103
MaxHistEdits == 52

\* ------------------------------------------------------- program constants
MAX_UNDO == 50
DEFAULT_WPG == 4
SPLIT_TOLERANCE == 50
SKIP_TOLERANCE == 50
GRACE == 150

\* ------------------------------------------------------------------ helpers
Min(a, b) == IF a < b THEN a ELSE b
Max(a, b) == IF a > b THEN a ELSE b
Abs(a) == IF a < 0 THEN 0 - a ELSE a
Last(s) == s[Len(s)]
Front(s) == SubSeq(s, 1, Len(s) - 1)
Range(s) == {s[k] : k \in 1..Len(s)}

RECURSIVE Flatten(_)
Flatten(ss) == IF ss = <<>> THEN <<>> ELSE Head(ss) \o Flatten(Tail(ss))

\* Array.prototype.splice(at, del, ...ins) with a 0-based position
Splice(s, at, del, ins) ==
  LET a == Min(Max(at, 0), Len(s))
      d == Min(Max(del, 0), Len(s) - a)
  IN  SubSeq(s, 1, a) \o ins \o SubSeq(s, a + d + 1, Len(s))

\* push(t) without the sort that follows it
SortedInsert_withoutSort(s, t) == Append(s, t)

\* ascending insertion, the result of push(t) followed by sort((a, b) => a - b)
RECURSIVE SortedInsert(_, _)
SortedInsert(s, t) ==
  IF s = <<>> THEN <<t>>
  ELSE IF t < Head(s) THEN <<t>> \o s
  ELSE <<Head(s)>> \o SortedInsert(Tail(s), t)

\* String.prototype.trim on a text
RECURSIVE TrimLeft(_)
TrimLeft(t) == IF t # <<>> /\ Head(t) = " " THEN TrimLeft(Tail(t)) ELSE t
RECURSIVE TrimRight(_)
TrimRight(t) == IF t # <<>> /\ Last(t) = " " THEN TrimRight(Front(t)) ELSE t
Trim(t) == TrimRight(TrimLeft(t))

\* texts.join(' ')
RECURSIVE JoinSpace(_)
JoinSpace(ts) ==
  IF ts = <<>> THEN <<>>
  ELSE IF Len(ts) = 1 THEN ts[1]
  ELSE ts[1] \o <<" ">> \o JoinSpace(Tail(ts))

RECURSIVE Texts(_)
Texts(ws) == IF ws = <<>> THEN <<>> ELSE <<Head(ws).text>> \o Texts(Tail(ws))

\* Set.prototype.add, .delete and the loop for (i = lo; i <= hi; i++) add(i)
SetAdd(s, x) == IF x \in Range(s) THEN s ELSE Append(s, x)
SetDelete(s, x) == SelectSeq(s, LAMBDA y : y # x)
RECURSIVE SetAddRange(_, _, _)
SetAddRange(s, lo, hi) ==
  IF lo > hi THEN s ELSE SetAddRange(SetAdd(s, lo), lo + 1, hi)

\* [...set].sort((a, b) => a - b)
RECURSIVE SortedSeq(_)
SortedSeq(S) ==
  IF S = {} THEN <<>>
  ELSE LET m == CHOOSE x \in S : \A y \in S : x <= y
       IN  <<m>> \o SortedSeq(S \ {m})

\* ------------------------------------------------------------- the inputs
Word(txt, s, e) ==
  [text |-> txt, start |-> s, end |-> e, merged |-> FALSE, style |-> "none"]

\* the transcription collaborator's result: the words of spec.md's grouping
\* example, continued
Transcript ==
  << Word(<<"h", "i">>, 0, 400),
     Word(<<"y", "o">>, 500, 900),
     Word(<<"o", "k">>, 1000, 1500),
     Word(<<"g", "o">>, 1600, 2000),
     Word(<<"u", "p">>, 2100, 2600) >>

\* two long words separated by a 0.2 s gap (the grace-period example)
TranscriptGap ==
  << Word(<<"a">>, 0, 2000), Word(<<"b">>, 2200, 4000) >>

Transcripts ==
  {SubSeq(Transcript, 1, n) : n \in 0..MaxWords} \cup {TranscriptGap}

\* what the user types into the inline editor of a word
EditInputs == { <<" ", "n", "o", " ">>, <<" ">> }

\* the positions the playhead is moved to
SeekTimes == {0, 5000, 5020}

\* the media durations the video element reports (0: metadata not loaded)
Durations == {0, 15000}

\* the words-per-group values chosen on the slider
WpgInputs == {1, 2}

\* the values typed into a group's start / end field
TimingInputs == {250}

VARIABLES
  currentView,          \* store.currentView
  activeTab,            \* LeftSidebar activeTab
  words,                \* store.words
  videoFilename,        \* store.videoFilename
  selectedWordIndices,  \* store.selectedWordIndices, a Set: in insertion order
  lastClickedIndex,     \* store.lastClickedIndex
  customGroups,         \* store.customGroups
  useCustomGroups,      \* store.useCustomGroups
  useDynamicMode,       \* store.useDynamicMode
  style,                \* store.style
  undoStack,            \* store.undoStack
  redoStack,            \* store.redoStack
  currentTime,          \* store.currentTime
  splitPoints,          \* store.splitPoints
  removedSegments,      \* store.removedSegments
  mergeContext,         \* TranscriptPanel mergeContext / mergeText (modal)
  duration,             \* Timeline duration ref
  video,                \* the <video> element: currentTime, paused, duration
  pending,              \* store calls deferred by import('../store.js').then
  sync,                 \* VideoPanel: lastGroupKey and what the last time update resolved
  groupDrag,            \* Timeline groupDrag ref
  cutter,               \* SilenceCutterPanel: store.silenceCutter, _pollTimer, the
                        \* requests under way, the server's jobs; and as history the
                        \* jobs applied and whether two polls were ever in flight
  lastOp,               \* the handler that ran last, with its arguments
  prevOp,               \* the name of the handler that ran before it
  pre,                  \* the store as it was before lastOp ran
  fuel                  \* handler invocations left to explore

vars ==
  << currentView, activeTab, words, videoFilename, selectedWordIndices,
     lastClickedIndex, customGroups, useCustomGroups, useDynamicMode, style,
     undoStack, redoStack, currentTime, splitPoints, removedSegments,
     mergeContext, duration, video, pending, sync, groupDrag, cutter, lastOp,
     prevOp, pre, fuel >>

\* the variables of the store that a snapshot is meant to cover, and the groups
Editable ==
  [ words |-> words, groups |-> customGroups, style |-> style,
    videoFilename |-> videoFilename, splitPoints |-> splitPoints,
    removedSegments |-> removedSegments, useCustomGroups |-> useCustomGroups,
    useDynamicMode |-> useDynamicMode ]

\* what the claims compare a handler's result with
Before ==
  [ e |-> Editable, nUndo |-> Len(undoStack), nRedo |-> Len(redoStack),
    selection |-> selectedWordIndices ]

NoContext == [open |-> FALSE, indices |-> <<>>, wordsToMerge |-> <<>>, text |-> <<>>]

\* groupDrag.value = null
NoDrag == [mode |-> "none", gi |-> -1, origStart |-> 0, origEnd |-> 0]

\* ------------------------------------------------------------ store.js
\* store.style.wpg || 4
EffectiveWpg(st) == IF st.wpg = 0 THEN DEFAULT_WPG ELSE st.wpg

\* the loop of regenerateAutoGroups with every group ending where its first
\* word ends
RECURSIVE AutoChunks_endOfFirstWord(_, _, _)
AutoChunks_endOfFirstWord(ws, wpg, i) ==
  IF i >= Len(ws) THEN <<>>
  ELSE LET hi == Min(i + wpg, Len(ws))
           n == hi - i
       IN  (IF n = 0 THEN <<>>
            ELSE << [ word_indices |-> [j \in 1..n |-> i + j - 1],
                      start |-> ws[i + 1].start,
                      end |-> ws[i + 1].end ] >>)
           \o AutoChunks_endOfFirstWord(ws, wpg, i + wpg)

\* the loop of regenerateAutoGroups from position i on
RECURSIVE AutoChunks(_, _, _)
AutoChunks(ws, wpg, i) ==
  IF i >= Len(ws) THEN <<>>
  ELSE LET hi == Min(i + wpg, Len(ws))
           n == hi - i
       IN  (IF n = 0 THEN <<>>
            ELSE << [ word_indices |-> [j \in 1..n |-> i + j - 1],
                      start |-> ws[i + 1].start,
                      end |-> ws[hi].end ] >>)
           \o AutoChunks(ws, wpg, i + wpg)

\* regenerateAutoGroups with its loop started at the second word
regenerateAutoGroups_fromSecondWord(ws, st) == AutoChunks(ws, EffectiveWpg(st), 1)

\* regenerateAutoGroups without store.customGroups = [] before its loop
regenerateAutoGroups_withoutReset(ws, st) ==
  customGroups \o AutoChunks(ws, EffectiveWpg(st), 0)

regenerateAutoGroups(ws, st) == AutoChunks(ws, EffectiveWpg(st), 0)

captureState(label) ==
  [ label |-> label,
    words |-> words,
    groups |-> customGroups,
    style |-> style,
    videoFilename |-> videoFilename,
    splitPoints |-> splitPoints,
    removedSegments |-> removedSegments,
    useCustomGroups |-> useCustomGroups,
    useDynamicMode |-> useDynamicMode ]

\* saveUndoSnapshot without the shift of the oldest snapshot
PushUndo_withoutShift(label) == Append(undoStack, captureState(label))

\* the stacks after saveUndoSnapshot(label)
PushUndo(label) ==
  LET pushed == Append(undoStack, captureState(label))
  IN  IF Len(pushed) > MAX_UNDO THEN Tail(pushed) ELSE pushed

\* saveUndoSnapshot without store.redoStack = []
saveUndoSnapshot_keepsRedo(label) ==
  /\ undoStack' = PushUndo(label)
  /\ redoStack' = redoStack

saveUndoSnapshot(label) ==
  /\ undoStack' = PushUndo(label)
  /\ redoStack' = <<>>

\* restoreSnapshot without the assignment of store.splitPoints
restoreSnapshot_keepsSplitPoints(snapshot) ==
  /\ words' = snapshot.words
  /\ style' = snapshot.style
  /\ videoFilename' = snapshot.videoFilename
  /\ splitPoints' = splitPoints
  /\ removedSegments' = snapshot.removedSegments
  /\ useCustomGroups' = snapshot.useCustomGroups
  /\ useDynamicMode' = snapshot.useDynamicMode
  /\ selectedWordIndices' = <<>>
  /\ customGroups' = regenerateAutoGroups(snapshot.words, snapshot.style)
  /\ sync' = IF snapshot.useDynamicMode # useDynamicMode
             THEN [sync EXCEPT !.lastGroupKey = <<>>]
             ELSE sync

restoreSnapshot(snapshot) ==
  /\ words' = snapshot.words
  /\ style' = snapshot.style
  /\ videoFilename' = snapshot.videoFilename
  /\ splitPoints' = snapshot.splitPoints
  /\ removedSegments' = snapshot.removedSegments
  /\ useCustomGroups' = snapshot.useCustomGroups
  /\ useDynamicMode' = snapshot.useDynamicMode
  /\ selectedWordIndices' = <<>>
  /\ customGroups' = regenerateAutoGroups(snapshot.words, snapshot.style)
  \* VideoPanel's watcher of store.useDynamicMode
  /\ sync' = IF snapshot.useDynamicMode # useDynamicMode
             THEN [sync EXCEPT !.lastGroupKey = <<>>]
             ELSE sync

\* every handler: one invocation less to explore, and the record of it
Ran(op) ==
  /\ fuel > 0
  /\ fuel' = fuel - 1
  /\ lastOp' = op
  /\ prevOp' = lastOp.name
  /\ pre' = Before

InEditor == currentView = "editor"

\* undoAction that empties the selection before looking at the stack
undoAction_clearsSelectionFirst ==
  /\ InEditor /\ ~mergeContext.open
  /\ Ran([name |-> "undo"])
  /\ IF undoStack = <<>>
     THEN /\ selectedWordIndices' = <<>>
          /\ UNCHANGED << words, style, videoFilename, splitPoints,
                          removedSegments, useCustomGroups, useDynamicMode,
                          customGroups, undoStack, redoStack, sync >>
     ELSE /\ redoStack' = Append(redoStack, captureState("Redo"))
          /\ undoStack' = Front(undoStack)
          /\ restoreSnapshot(Last(undoStack))
  /\ UNCHANGED << currentView, activeTab, lastClickedIndex, currentTime,
                  mergeContext, duration, video, pending >>
  /\ UNCHANGED << groupDrag, cutter >>

undoAction ==
  /\ InEditor /\ ~mergeContext.open
  /\ Ran([name |-> "undo"])
  /\ IF undoStack = <<>>
     THEN UNCHANGED << words, style, videoFilename, splitPoints, removedSegments,
                       useCustomGroups, useDynamicMode, selectedWordIndices,
                       customGroups, undoStack, redoStack, sync >>
     ELSE /\ redoStack' = Append(redoStack, captureState("Redo"))
          /\ undoStack' = Front(undoStack)
          /\ restoreSnapshot(Last(undoStack))
  /\ UNCHANGED << currentView, activeTab, lastClickedIndex, currentTime,
                  mergeContext, duration, video, pending >>
  /\ UNCHANGED << groupDrag, cutter >>

redoAction ==
  /\ InEditor /\ ~mergeContext.open
  /\ Ran([name |-> "redo"])
  /\ IF redoStack = <<>>
     THEN UNCHANGED << words, style, videoFilename, splitPoints, removedSegments,
                       useCustomGroups, useDynamicMode, selectedWordIndices,
                       customGroups, undoStack, redoStack, sync >>
     ELSE /\ undoStack' = Append(undoStack, captureState("Undo"))
          /\ redoStack' = Front(redoStack)
          /\ restoreSnapshot(Last(redoStack))
  /\ UNCHANGED << currentView, activeTab, lastClickedIndex, currentTime,
                  mergeContext, duration, video, pending >>
  /\ UNCHANGED << groupDrag, cutter >>

\* ---------------------------------------------------------- UploadView.js
\* handleFile / loadExisting / transcribeExisting, then openEditor
loadTranscription(ws) ==
  /\ currentView = "upload"
  /\ words' = ws
  /\ videoFilename' = "clip.mp4"
  /\ customGroups' = regenerateAutoGroups(ws, style)
  /\ currentView' = "editor"
  /\ lastOp' = [name |-> "load"]
  /\ prevOp' = lastOp.name
  /\ pre' = Before
  /\ UNCHANGED << activeTab, selectedWordIndices, lastClickedIndex,
                  useCustomGroups, useDynamicMode, style, undoStack, redoStack,
                  currentTime, splitPoints, removedSegments, mergeContext,
                  duration, video, pending, sync, fuel >>
  /\ UNCHANGED << groupDrag, cutter >>

\* ------------------------------------------------------------ Timeline.js
\* the video element's loadedmetadata event
onLoadedMetadata(d) ==
  /\ InEditor
  /\ video.duration = 0
  /\ d > 0
  /\ video' = [video EXCEPT !.duration = d]
  /\ duration' = d
  /\ UNCHANGED << currentView, activeTab, words, videoFilename,
                  selectedWordIndices, lastClickedIndex, customGroups,
                  useCustomGroups, useDynamicMode, style, undoStack, redoStack,
                  currentTime, splitPoints, removedSegments, mergeContext,
                  pending, sync, lastOp, prevOp, pre, fuel >>
  /\ UNCHANGED << groupDrag, cutter >>

\* the requestAnimationFrame callback: store.currentTime = v.currentTime
tick ==
  /\ InEditor
  /\ currentTime # video.currentTime
  /\ currentTime' = video.currentTime
  /\ UNCHANGED << currentView, activeTab, words, videoFilename,
                  selectedWordIndices, lastClickedIndex, customGroups,
                  useCustomGroups, useDynamicMode, style, undoStack, redoStack,
                  splitPoints, removedSegments, mergeContext, duration, video,
                  pending, sync, lastOp, prevOp, pre, fuel >>
  /\ UNCHANGED << groupDrag, cutter >>

\* seekFromEvent -> emit('seek') -> VideoPanel.seekTo
seek(t) ==
  /\ InEditor /\ ~mergeContext.open
  /\ Ran([name |-> "seek", t |-> t])
  /\ video' = [video EXCEPT !.currentTime = t]
  /\ UNCHANGED << currentView, activeTab, words, videoFilename,
                  selectedWordIndices, lastClickedIndex, customGroups,
                  useCustomGroups, useDynamicMode, style, undoStack, redoStack,
                  currentTime, splitPoints, removedSegments, mergeContext,
                  duration, pending, sync >>
  /\ UNCHANGED << groupDrag, cutter >>

\* --------------------------------------------------------- LeftSidebar.js
switchTab(tab) ==
  /\ InEditor /\ ~mergeContext.open
  /\ tab # activeTab
  /\ Ran([name |-> "switchTab", tab |-> tab])
  /\ activeTab' = tab
  /\ IF tab = "groups"
     THEN /\ customGroups' = IF Len(words) > 0 /\ Len(customGroups) = 0
                             THEN regenerateAutoGroups(words, style)
                             ELSE customGroups
          /\ useCustomGroups' = TRUE
     ELSE UNCHANGED << customGroups, useCustomGroups >>
  /\ UNCHANGED << currentView, words, videoFilename, selectedWordIndices,
                  lastClickedIndex, useDynamicMode, style, undoStack, redoStack,
                  currentTime, splitPoints, removedSegments, mergeContext,
                  duration, video, pending, sync >>
  /\ UNCHANGED << groupDrag, cutter >>

\* ------------------------------------------------------ TranscriptPanel.js
OnTranscriptTab == InEditor /\ activeTab = "transcript" /\ ~mergeContext.open
WordIndices == 0..(Len(words) - 1)

handleWordClick(kind, index) ==
  /\ OnTranscriptTab
  /\ index \in WordIndices
  /\ Ran([name |-> "handleWordClick", kind |-> kind, index |-> index])
  /\ IF kind = "shift" /\ lastClickedIndex >= 0
     THEN /\ selectedWordIndices' =
               SetAddRange(selectedWordIndices, Min(lastClickedIndex, index),
                           Max(lastClickedIndex, index))
          /\ video' = video
     ELSE IF kind = "ctrl"
     THEN /\ selectedWordIndices' =
               IF index \in Range(selectedWordIndices)
               THEN SetDelete(selectedWordIndices, index)
               ELSE SetAdd(selectedWordIndices, index)
          /\ video' = video
     ELSE /\ video' = [video EXCEPT !.currentTime = words[index + 1].start]
          /\ selectedWordIndices' = <<index>>
  /\ lastClickedIndex' = index
  /\ UNCHANGED << currentView, activeTab, words, videoFilename, customGroups,
                  useCustomGroups, useDynamicMode, style, undoStack, redoStack,
                  currentTime, splitPoints, removedSegments, mergeContext,
                  duration, pending, sync >>
  /\ UNCHANGED << groupDrag, cutter >>

\* the inline editor of a word, from the double click to finish()
editWord(index, input) ==
  /\ OnTranscriptTab
  /\ index \in WordIndices
  /\ Ran([name |-> "editWord", index |-> index])
  /\ LET newText == Trim(input)
     IN  IF newText # <<>> /\ newText # words[index + 1].text
         THEN /\ saveUndoSnapshot("Edit word")
              /\ words' = [words EXCEPT ![index + 1].text = newText]
         ELSE UNCHANGED << undoStack, redoStack, words >>
  /\ UNCHANGED << currentView, activeTab, videoFilename, selectedWordIndices,
                  lastClickedIndex, customGroups, useCustomGroups,
                  useDynamicMode, style, currentTime, splitPoints,
                  removedSegments, mergeContext, duration, video, pending, sync >>
  /\ UNCHANGED << groupDrag, cutter >>

deleteWord(index) ==
  /\ OnTranscriptTab
  /\ index \in WordIndices
  /\ Ran([name |-> "deleteWord", index |-> index])
  /\ saveUndoSnapshot("Delete word")
  /\ words' = Splice(words, index, 1, <<>>)
  /\ selectedWordIndices' = <<>>
  /\ customGroups' = regenerateAutoGroups(words', style)
  /\ UNCHANGED << currentView, activeTab, videoFilename, lastClickedIndex,
                  useCustomGroups, useDynamicMode, style, currentTime,
                  splitPoints, removedSegments, mergeContext, duration, video,
                  pending, sync >>
  /\ UNCHANGED << groupDrag, cutter >>

\* canMerge without the loop that looks for a gap
canMerge_sizeOnly == Len(selectedWordIndices) >= 2

canMerge ==
  /\ Len(selectedWordIndices) >= 2
  /\ LET sorted == SortedSeq(Range(selectedWordIndices))
     IN  \A i \in 2..Len(sorted) : sorted[i] = sorted[i - 1] + 1

openMergeModal ==
  /\ OnTranscriptTab
  /\ Ran([name |-> "openMergeModal"])
  /\ IF canMerge /\ Range(selectedWordIndices) \subseteq WordIndices
     THEN LET sorted == SortedSeq(Range(selectedWordIndices))
              wordsToMerge == SubSeq(words, sorted[1] + 1, Last(sorted) + 1)
          IN  mergeContext' =
                [ open |-> TRUE, indices |-> sorted,
                  wordsToMerge |-> wordsToMerge,
                  text |-> JoinSpace(Texts(wordsToMerge)) ]
     ELSE \* not mergeable: return; a selected index without a word: w.text
          \* of undefined throws before anything is assigned
          mergeContext' = mergeContext
  /\ UNCHANGED << currentView, activeTab, words, videoFilename,
                  selectedWordIndices, lastClickedIndex, customGroups,
                  useCustomGroups, useDynamicMode, style, undoStack, redoStack,
                  currentTime, splitPoints, removedSegments, duration, video,
                  pending, sync >>
  /\ UNCHANGED << groupDrag, cutter >>

\* confirmMerge without its call of saveUndoSnapshot
confirmMerge_withoutSnapshot(typed) ==
  /\ InEditor /\ mergeContext.open
  /\ Ran([name |-> "confirmMerge", indices |-> mergeContext.indices])
  /\ IF Trim(typed) = <<>>
     THEN UNCHANGED << undoStack, redoStack, words, selectedWordIndices,
                       customGroups, mergeContext >>
     ELSE LET ctx == mergeContext
              mergedWord ==
                [ text |-> Trim(typed),
                  start |-> ctx.wordsToMerge[1].start,
                  end |-> Last(ctx.wordsToMerge).end,
                  merged |-> TRUE,
                  style |-> "none" ]
          IN  /\ UNCHANGED << undoStack, redoStack >>
              /\ words' = Splice(words, ctx.indices[1], Len(ctx.indices), <<mergedWord>>)
              /\ selectedWordIndices' = <<>>
              /\ customGroups' = regenerateAutoGroups(words', style)
              /\ mergeContext' = NoContext
  /\ UNCHANGED << currentView, activeTab, videoFilename, lastClickedIndex,
                  useCustomGroups, useDynamicMode, style, currentTime,
                  splitPoints, removedSegments, duration, video, pending, sync >>
  /\ UNCHANGED << groupDrag, cutter >>

\* the Merge button of the modal; typed is the content of the text field
confirmMerge(typed) ==
  /\ InEditor /\ mergeContext.open
  /\ Ran([name |-> "confirmMerge", indices |-> mergeContext.indices])
  /\ IF Trim(typed) = <<>>
     THEN UNCHANGED << undoStack, redoStack, words, selectedWordIndices,
                       customGroups, mergeContext >>
     ELSE LET ctx == mergeContext
              mergedWord ==
                [ text |-> Trim(typed),
                  start |-> ctx.wordsToMerge[1].start,
                  end |-> Last(ctx.wordsToMerge).end,
                  merged |-> TRUE,
                  style |-> "none" ]
          IN  /\ saveUndoSnapshot("Merge words")
              /\ words' = Splice(words, ctx.indices[1], Len(ctx.indices), <<mergedWord>>)
              /\ selectedWordIndices' = <<>>
              /\ customGroups' = regenerateAutoGroups(words', style)
              /\ mergeContext' = NoContext
  /\ UNCHANGED << currentView, activeTab, videoFilename, lastClickedIndex,
                  useCustomGroups, useDynamicMode, style, currentTime,
                  splitPoints, removedSegments, duration, video, pending, sync >>
  /\ UNCHANGED << groupDrag, cutter >>

\* reTranscribe, from the arrival of the new transcription on
reTranscribe(ws) ==
  /\ InEditor /\ ~mergeContext.open
  /\ videoFilename # ""
  /\ Ran([name |-> "reTranscribe"])
  /\ words' = ws
  /\ selectedWordIndices' = <<>>
  /\ useCustomGroups' = FALSE
  /\ undoStack' = <<>>
  /\ redoStack' = <<>>
  /\ customGroups' = regenerateAutoGroups(ws, style)
  /\ UNCHANGED << currentView, activeTab, videoFilename, lastClickedIndex,
                  useDynamicMode, style, currentTime, splitPoints,
                  removedSegments, mergeContext, duration, video, pending,
                  sync >>
  /\ UNCHANGED << groupDrag, cutter >>

closeMergeModal ==
  /\ InEditor /\ mergeContext.open
  /\ Ran([name |-> "closeMergeModal"])
  /\ mergeContext' = NoContext
  /\ UNCHANGED << currentView, activeTab, words, videoFilename,
                  selectedWordIndices, lastClickedIndex, customGroups,
                  useCustomGroups, useDynamicMode, style, undoStack, redoStack,
                  currentTime, splitPoints, removedSegments, duration, video,
                  pending, sync >>
  /\ UNCHANGED << groupDrag, cutter >>

\* -------------------------------------------------------- GroupsSidebar.js
OnGroupsTab == InEditor /\ activeTab = "groups" /\ ~mergeContext.open
GroupIndices == 0..(Len(customGroups) - 1)

\* store.words[i]?.start ?? fallback and store.words[i]?.end ?? fallback
StartOr(i, fallback) ==
  IF i \in WordIndices THEN words[i + 1].start ELSE fallback
EndOr(i, fallback) ==
  IF i \in WordIndices THEN words[i + 1].end ELSE fallback

\* parseFloat(x.toFixed(2)) on milliseconds
Round10(x) ==
  IF x >= 0 THEN ((x + 5) \div 10) * 10 ELSE 0 - (((0 - x) + 5) \div 10) * 10

onWpgChange(w) ==
  /\ OnGroupsTab
  /\ Ran([name |-> "onWpgChange", wpg |-> w])
  /\ style' = [style EXCEPT !.wpg = w]
  /\ customGroups' = regenerateAutoGroups(words, style')
  /\ useCustomGroups' = TRUE
  /\ UNCHANGED << currentView, activeTab, words, videoFilename,
                  selectedWordIndices, lastClickedIndex, useDynamicMode,
                  undoStack, redoStack, currentTime, splitPoints,
                  removedSegments, mergeContext, duration, video, pending, sync >>
  /\ UNCHANGED << groupDrag, cutter >>

resetToAuto ==
  /\ OnGroupsTab
  /\ Ran([name |-> "resetToAuto"])
  /\ customGroups' = regenerateAutoGroups(words, style)
  /\ useCustomGroups' = TRUE
  /\ UNCHANGED << currentView, activeTab, words, videoFilename,
                  selectedWordIndices, lastClickedIndex, useDynamicMode, style,
                  undoStack, redoStack, currentTime, splitPoints,
                  removedSegments, mergeContext, duration, video, pending, sync >>
  /\ UNCHANGED << groupDrag, cutter >>

\* what only the group list changes
GroupsOnly ==
  UNCHANGED << currentView, activeTab, words, videoFilename,
               selectedWordIndices, lastClickedIndex, useCustomGroups,
               useDynamicMode, style, currentTime, splitPoints,
               removedSegments, mergeContext, duration, video, pending, sync >>

setTiming(gi, field, value) ==
  /\ OnGroupsTab
  /\ gi \in GroupIndices
  /\ Ran([name |-> "setTiming", gi |-> gi, field |-> field])
  /\ customGroups' =
       IF value >= 0
       THEN [customGroups EXCEPT ![gi + 1][field] = value]
       ELSE customGroups
  /\ UNCHANGED << undoStack, redoStack >>
  /\ GroupsOnly
  /\ UNCHANGED << groupDrag, cutter >>

nudgeTiming(gi, field, delta) ==
  /\ OnGroupsTab
  /\ gi \in GroupIndices
  /\ Ran([name |-> "nudgeTiming", gi |-> gi, field |-> field])
  /\ LET val == Round10(customGroups[gi + 1][field] + delta)
     IN  customGroups' =
           IF val >= 0
           THEN [customGroups EXCEPT ![gi + 1][field] = val]
           ELSE customGroups
  /\ UNCHANGED << undoStack, redoStack >>
  /\ GroupsOnly
  /\ UNCHANGED << groupDrag, cutter >>

\* a split whose second half starts where the group started
splitBefore_secondKeepsStart(gi, wi) ==
  /\ OnGroupsTab
  /\ gi \in GroupIndices
  /\ Ran([name |-> "splitBefore", gi |-> gi, wi |-> wi])
  /\ LET g == customGroups[gi + 1]
     IN  IF wi <= 0 \/ wi >= Len(g.word_indices)
         THEN UNCHANGED << undoStack, redoStack, customGroups >>
         ELSE LET first == SubSeq(g.word_indices, 1, wi)
                  second == SubSeq(g.word_indices, wi + 1, Len(g.word_indices))
                  firstEnd == EndOr(Last(first), g.start)
              IN  /\ saveUndoSnapshot("Split group")
                  /\ customGroups' = Splice(customGroups, gi, 1,
                       << [word_indices |-> first, start |-> g.start, end |-> firstEnd],
                          [word_indices |-> second, start |-> g.start, end |-> g.end] >>)
  /\ GroupsOnly
  /\ UNCHANGED << groupDrag, cutter >>

splitBefore(gi, wi) ==
  /\ OnGroupsTab
  /\ gi \in GroupIndices
  /\ Ran([name |-> "splitBefore", gi |-> gi, wi |-> wi])
  /\ LET g == customGroups[gi + 1]
     IN  IF wi <= 0 \/ wi >= Len(g.word_indices)
         THEN UNCHANGED << undoStack, redoStack, customGroups >>
         ELSE LET first == SubSeq(g.word_indices, 1, wi)
                  second == SubSeq(g.word_indices, wi + 1, Len(g.word_indices))
                  firstEnd == EndOr(Last(first), g.start)
                  secondStart == StartOr(second[1], firstEnd)
              IN  /\ saveUndoSnapshot("Split group")
                  /\ customGroups' = Splice(customGroups, gi, 1,
                       << [word_indices |-> first, start |-> g.start, end |-> firstEnd],
                          [word_indices |-> second, start |-> secondStart, end |-> g.end] >>)
  /\ GroupsOnly
  /\ UNCHANGED << groupDrag, cutter >>

mergeWithPrev(gi) ==
  /\ OnGroupsTab
  /\ gi \in GroupIndices
  /\ Ran([name |-> "mergeWithPrev", gi |-> gi])
  /\ IF gi = 0
     THEN UNCHANGED << undoStack, redoStack, customGroups >>
     ELSE LET g1 == customGroups[gi]
              g2 == customGroups[gi + 1]
          IN  /\ saveUndoSnapshot("Merge group")
              /\ customGroups' = Splice(customGroups, gi - 1, 2,
                   << [word_indices |-> g1.word_indices \o g2.word_indices,
                       start |-> g1.start, end |-> g2.end] >>)
  /\ GroupsOnly
  /\ UNCHANGED << groupDrag, cutter >>

\* a merge that keeps the end of the earlier group
mergeWithNext_endOfFirst(gi) ==
  /\ OnGroupsTab
  /\ gi \in GroupIndices
  /\ Ran([name |-> "mergeWithNext", gi |-> gi])
  /\ IF gi >= Len(customGroups) - 1
     THEN UNCHANGED << undoStack, redoStack, customGroups >>
     ELSE LET g1 == customGroups[gi + 1]
              g2 == customGroups[gi + 2]
          IN  /\ saveUndoSnapshot("Merge group")
              /\ customGroups' = Splice(customGroups, gi, 2,
                   << [word_indices |-> g1.word_indices \o g2.word_indices,
                       start |-> g1.start, end |-> g1.end] >>)
  /\ GroupsOnly
  /\ UNCHANGED << groupDrag, cutter >>

mergeWithNext(gi) ==
  /\ OnGroupsTab
  /\ gi \in GroupIndices
  /\ Ran([name |-> "mergeWithNext", gi |-> gi])
  /\ IF gi >= Len(customGroups) - 1
     THEN UNCHANGED << undoStack, redoStack, customGroups >>
     ELSE LET g1 == customGroups[gi + 1]
              g2 == customGroups[gi + 2]
          IN  /\ saveUndoSnapshot("Merge group")
              /\ customGroups' = Splice(customGroups, gi, 2,
                   << [word_indices |-> g1.word_indices \o g2.word_indices,
                       start |-> g1.start, end |-> g2.end] >>)
  /\ GroupsOnly
  /\ UNCHANGED << groupDrag, cutter >>

moveFirstToPrev(gi) ==
  /\ OnGroupsTab
  /\ gi \in GroupIndices
  /\ Ran([name |-> "moveFirstToPrev", gi |-> gi])
  /\ IF gi = 0 \/ Len(customGroups[gi + 1].word_indices) < 2
     THEN UNCHANGED << undoStack, redoStack, customGroups >>
     ELSE LET g == customGroups[gi + 1]
              moved == g.word_indices[1]
              prev == customGroups[gi]
              newPrevEnd == EndOr(moved, prev.end)
              newCurStart == StartOr(g.word_indices[2], g.start)
          IN  /\ saveUndoSnapshot("Move word")
              /\ customGroups' =
                   [customGroups EXCEPT
                      ![gi] = [prev EXCEPT
                                 !.word_indices = Append(prev.word_indices, moved),
                                 !.end = newPrevEnd],
                      ![gi + 1] = [g EXCEPT
                                     !.word_indices = Tail(g.word_indices),
                                     !.start = newCurStart]]
  /\ GroupsOnly
  /\ UNCHANGED << groupDrag, cutter >>

\* a move that also recomputes the end of the receiving group from its words
moveLastToNext_recomputesNextEnd(gi) ==
  /\ OnGroupsTab
  /\ gi \in GroupIndices
  /\ Ran([name |-> "moveLastToNext", gi |-> gi])
  /\ IF gi >= Len(customGroups) - 1 \/ Len(customGroups[gi + 1].word_indices) < 2
     THEN UNCHANGED << undoStack, redoStack, customGroups >>
     ELSE LET g == customGroups[gi + 1]
              moved == Last(g.word_indices)
              next == customGroups[gi + 2]
              newCurEnd == EndOr(g.word_indices[Len(g.word_indices) - 1], g.end)
              newNextStart == StartOr(moved, next.start)
          IN  /\ saveUndoSnapshot("Move word")
              /\ customGroups' =
                   [customGroups EXCEPT
                      ![gi + 1] = [g EXCEPT
                                     !.word_indices = Front(g.word_indices),
                                     !.end = newCurEnd],
                      ![gi + 2] = [next EXCEPT
                                     !.word_indices = <<moved>> \o next.word_indices,
                                     !.start = newNextStart,
                                     !.end = EndOr(Last(next.word_indices), next.end)]]
  /\ GroupsOnly
  /\ UNCHANGED << groupDrag, cutter >>

moveLastToNext(gi) ==
  /\ OnGroupsTab
  /\ gi \in GroupIndices
  /\ Ran([name |-> "moveLastToNext", gi |-> gi])
  /\ IF gi >= Len(customGroups) - 1 \/ Len(customGroups[gi + 1].word_indices) < 2
     THEN UNCHANGED << undoStack, redoStack, customGroups >>
     ELSE LET g == customGroups[gi + 1]
              moved == Last(g.word_indices)
              next == customGroups[gi + 2]
              newCurEnd == EndOr(g.word_indices[Len(g.word_indices) - 1], g.end)
              newNextStart == StartOr(moved, next.start)
          IN  /\ saveUndoSnapshot("Move word")
              /\ customGroups' =
                   [customGroups EXCEPT
                      ![gi + 1] = [g EXCEPT
                                     !.word_indices = Front(g.word_indices),
                                     !.end = newCurEnd],
                      ![gi + 2] = [next EXCEPT
                                     !.word_indices = <<moved>> \o next.word_indices,
                                     !.start = newNextStart]]
  /\ GroupsOnly
  /\ UNCHANGED << groupDrag, cutter >>

\* ------------------------------------------- StyleSidebar (unnamed/part_003)
\* the indices selectedWordIndices.forEach visits before store.words[idx] is
\* undefined and the callback throws
RECURSIVE Reached(_)
Reached(sel) ==
  IF sel = <<>> \/ Head(sel) \notin WordIndices THEN {}
  ELSE {Head(sel)} \cup Reached(Tail(sel))

RECURSIVE SetStyles(_, _, _)
SetStyles(ws, idxs, value) ==
  IF ws = <<>> THEN <<>>
  ELSE SetStyles(Front(ws), idxs, value) \o
       << IF (Len(ws) - 1) \in idxs THEN [Last(ws) EXCEPT !.style = value] ELSE Last(ws) >>

\* the per-word colours and size chosen in the pickers, as one value; the panel
\* with both buttons is rendered only while words are selected
applyWordStyle(picked) ==
  /\ InEditor /\ ~mergeContext.open
  /\ selectedWordIndices # <<>>
  /\ Ran([name |-> "applyWordStyle"])
  /\ saveUndoSnapshot("Apply per-word style")
  /\ words' = SetStyles(words, Reached(selectedWordIndices), picked)
  /\ UNCHANGED << currentView, activeTab, videoFilename, selectedWordIndices,
                  lastClickedIndex, customGroups, useCustomGroups,
                  useDynamicMode, style, currentTime, splitPoints,
                  removedSegments, mergeContext, duration, video, pending, sync >>
  /\ UNCHANGED << groupDrag, cutter >>

clearWordStyles ==
  /\ InEditor /\ ~mergeContext.open
  /\ selectedWordIndices # <<>>
  /\ Ran([name |-> "clearWordStyles"])
  /\ saveUndoSnapshot("Clear word styles")
  /\ words' = SetStyles(words, Reached(selectedWordIndices), "none")
  /\ UNCHANGED << currentView, activeTab, videoFilename, selectedWordIndices,
                  lastClickedIndex, customGroups, useCustomGroups,
                  useDynamicMode, style, currentTime, splitPoints,
                  removedSegments, mergeContext, duration, video, pending, sync >>
  /\ UNCHANGED << groupDrag, cutter >>

\* setSubtitleMode without VideoPanel's watcher of store.useDynamicMode
setSubtitleMode_withoutWatcher(mode, presetUppercase) ==
  /\ InEditor /\ ~mergeContext.open
  /\ Ran([name |-> "setSubtitleMode", mode |-> mode])
  /\ LET dynamic == (mode = "dynamic")
         snapshot == [captureState("Apply preset") EXCEPT !.useDynamicMode = dynamic]
         pushed == Append(undoStack, snapshot)
     IN  /\ useDynamicMode' = dynamic
         /\ undoStack' = IF Len(pushed) > MAX_UNDO THEN Tail(pushed) ELSE pushed
         /\ redoStack' = <<>>
         /\ style' = [style EXCEPT !.uppercase = presetUppercase,
                                   !.preset = IF dynamic THEN "vtuber" ELSE "classic"]
         /\ customGroups' = IF ~useCustomGroups
                            THEN regenerateAutoGroups(words, style')
                            ELSE customGroups
         /\ sync' = sync
  /\ UNCHANGED << currentView, activeTab, words, videoFilename,
                  selectedWordIndices, lastClickedIndex, useCustomGroups,
                  currentTime, splitPoints, removedSegments, mergeContext,
                  duration, video, pending >>
  /\ UNCHANGED << groupDrag, cutter >>

\* the Dynamic / Static buttons: the mode is assigned first, then
\* applyDynamicPreset('vtuber') or applyStaticPreset('classic') takes its
\* snapshot and assigns the preset's style; presetUppercase is the preset's
\* uppercase flag
setSubtitleMode(mode, presetUppercase) ==
  /\ InEditor /\ ~mergeContext.open
  /\ Ran([name |-> "setSubtitleMode", mode |-> mode])
  /\ LET dynamic == (mode = "dynamic")
         snapshot == [captureState("Apply preset") EXCEPT !.useDynamicMode = dynamic]
         pushed == Append(undoStack, snapshot)
     IN  /\ useDynamicMode' = dynamic
         /\ undoStack' = IF Len(pushed) > MAX_UNDO THEN Tail(pushed) ELSE pushed
         /\ redoStack' = <<>>
         /\ style' = [style EXCEPT !.uppercase = presetUppercase,
                                   !.preset = IF dynamic THEN "vtuber" ELSE "classic"]
         /\ customGroups' = IF ~useCustomGroups
                            THEN regenerateAutoGroups(words, style')
                            ELSE customGroups
         \* VideoPanel's watcher of store.useDynamicMode
         /\ sync' = IF dynamic # useDynamicMode
                    THEN [sync EXCEPT !.lastGroupKey = <<>>]
                    ELSE sync
  /\ UNCHANGED << currentView, activeTab, words, videoFilename,
                  selectedWordIndices, lastClickedIndex, useCustomGroups,
                  currentTime, splitPoints, removedSegments, mergeContext,
                  duration, video, pending >>
  /\ UNCHANGED << groupDrag, cutter >>

\* ------------------------------------------------ store.js, split / segments
\* what only the segment editor changes
SegmentsOnly ==
  UNCHANGED << currentView, activeTab, words, videoFilename,
               selectedWordIndices, lastClickedIndex, customGroups,
               useCustomGroups, useDynamicMode, style, currentTime,
               mergeContext, duration, video, sync >>

\* currentTime.toFixed(3) rounds to the millisecond, the unit of the model
addSplitAtPlayhead ==
  /\ InEditor /\ ~mergeContext.open
  /\ Ran([name |-> "addSplitAtPlayhead", t |-> currentTime])
  /\ LET t == currentTime
     IN  IF t <= 0 \/ (\E k \in 1..Len(splitPoints) : Abs(splitPoints[k] - t) < SPLIT_TOLERANCE)
         THEN UNCHANGED << undoStack, redoStack, splitPoints >>
         ELSE /\ saveUndoSnapshot("Split at")
              /\ splitPoints' = SortedInsert(splitPoints, t)
  /\ UNCHANGED << removedSegments, pending, sync >>
  /\ SegmentsOnly
  /\ UNCHANGED << groupDrag, cutter >>

\* indexOf: the first 1-based position of x in s, 0 when absent
IndexOf(s, x) ==
  IF \E k \in 1..Len(s) : s[k] = x
  THEN CHOOSE k \in 1..Len(s) : s[k] = x /\ \A j \in 1..(k - 1) : s[j] # x
  ELSE 0

\* getSegments without the duration as the last point
getSegments_withoutDuration(dur) ==
  IF dur = 0 THEN <<>>
  ELSE LET points == <<0>> \o SelectSeq(splitPoints, LAMBDA p : p < dur)
       IN  [k \in 1..(Len(points) - 1) |->
             [ start |-> points[k],
               end |-> points[k + 1],
               active |-> (k - 1) \notin Range(removedSegments),
               index |-> k - 1 ]]

getSegments(dur) ==
  IF dur = 0 THEN <<>>
  ELSE LET points == <<0>> \o SelectSeq(splitPoints, LAMBDA p : p < dur) \o <<dur>>
       IN  [k \in 1..(Len(points) - 1) |->
             [ start |-> points[k],
               end |-> points[k + 1],
               active |-> (k - 1) \notin Range(removedSegments),
               index |-> k - 1 ]]

\* a handler called from an import('../store.js').then callback
Deferred(op) ==
  /\ pending # <<>>
  /\ Head(pending).name = op
  /\ pending' = Tail(pending)
  /\ lastOp' = Head(pending)
  /\ prevOp' = lastOp.name
  /\ pre' = Before
  /\ fuel' = fuel

\* removeSplitPoint without store.removedSegments = []
removeSplitPoint_keepsRemoved ==
  /\ Deferred("removeSplitPoint")
  /\ saveUndoSnapshot("Remove split point")
  /\ splitPoints' = Splice(splitPoints, Head(pending).index, 1, <<>>)
  /\ removedSegments' = removedSegments
  /\ SegmentsOnly
  /\ UNCHANGED << groupDrag, cutter >>

removeSplitPoint ==
  /\ Deferred("removeSplitPoint")
  /\ saveUndoSnapshot("Remove split point")
  /\ splitPoints' = Splice(splitPoints, Head(pending).index, 1, <<>>)
  /\ removedSegments' = <<>>
  /\ SegmentsOnly
  /\ UNCHANGED << groupDrag, cutter >>

\* toggleSegment that pushes the index without looking for it first
toggleSegment_alwaysPush ==
  /\ Deferred("toggleSegment")
  /\ removedSegments' = Append(removedSegments, Head(pending).index)
  /\ UNCHANGED << undoStack, redoStack, splitPoints >>
  /\ SegmentsOnly
  /\ UNCHANGED << groupDrag, cutter >>

toggleSegment ==
  /\ Deferred("toggleSegment")
  /\ LET idx == IndexOf(removedSegments, Head(pending).index)
     IN  removedSegments' =
           IF idx >= 1
           THEN Splice(removedSegments, idx - 1, 1, <<>>)
           ELSE Append(removedSegments, Head(pending).index)
  /\ UNCHANGED << undoStack, redoStack, splitPoints >>
  /\ SegmentsOnly
  /\ UNCHANGED << groupDrag, cutter >>

\* ------------------------------------------------------------ Timeline.js
\* a click on the hitbox of a displayed segment
handleToggleSegment(index) ==
  /\ InEditor /\ ~mergeContext.open
  /\ Len(splitPoints) > 0
  /\ index \in 0..(Len(getSegments(duration)) - 1)
  /\ Ran([name |-> "handleToggleSegment", index |-> index])
  /\ pending' = Append(pending, [name |-> "toggleSegment", index |-> index])
  /\ UNCHANGED << undoStack, redoStack, splitPoints, removedSegments >>
  /\ SegmentsOnly
  /\ UNCHANGED << groupDrag, cutter >>

\* a double click on a split line
handleRemoveSplit(index) ==
  /\ InEditor /\ ~mergeContext.open
  /\ index \in 0..(Len(splitPoints) - 1)
  /\ Ran([name |-> "handleRemoveSplit", index |-> index])
  /\ pending' = Append(pending, [name |-> "removeSplitPoint", index |-> index])
  /\ UNCHANGED << undoStack, redoStack, splitPoints, removedSegments >>
  /\ SegmentsOnly
  /\ UNCHANGED << groupDrag, cutter >>

\* ---------------------------------------------- store.js, getActiveGroups
\* store.words[i] of an index without a word
Undefined == [undefined |-> TRUE]
IsWord(w) == w # Undefined
WordAt(i) == IF i \in WordIndices THEN words[i + 1] ELSE Undefined

\* the loop of getActiveGroups (Auto mode) from position i on
RECURSIVE AutoView(_, _, _)
AutoView(ws, wpg, i) ==
  IF i >= Len(ws) THEN <<>>
  ELSE LET chunk == SubSeq(ws, i + 1, Min(i + wpg, Len(ws)))
       IN  (IF Len(chunk) = 0 THEN <<>>
            ELSE << [ words |-> chunk,
                      start |-> chunk[1].start,
                      end |-> Last(chunk).end ] >>)
           \o AutoView(ws, wpg, i + wpg)

RECURSIVE ResolveWords(_)
ResolveWords(idxs) ==
  IF idxs = <<>> THEN <<>> ELSE <<WordAt(Head(idxs))>> \o ResolveWords(Tail(idxs))

RECURSIVE CustomView(_)
CustomView(gs) ==
  IF gs = <<>> THEN <<>>
  ELSE << [ words |-> ResolveWords(Head(gs).word_indices),
            start |-> Head(gs).start,
            end |-> Head(gs).end ] >> \o CustomView(Tail(gs))

\* getActiveGroups without the test of store.useCustomGroups
getActiveGroups_alwaysCustom == CustomView(customGroups)

getActiveGroups ==
  IF useCustomGroups THEN CustomView(customGroups)
  ELSE AutoView(words, EffectiveWpg(style), 0)

\* ------------------------------------------------- VideoPanel.js, onTimeUpdate
NoSync == [lastGroupKey |-> <<>>, resolved |-> FALSE, activeGroup |-> -1,
           activeIdx |-> -1, entrance |-> FALSE, preview |-> <<>>]

\* the 0-based position of the first TRUE of a sequence of tests, or -1
FirstIndex(hits) ==
  IF \E k \in 1..Len(hits) : hits[k]
  THEN (CHOOSE k \in 1..Len(hits) : hits[k] /\ \A j \in 1..(k - 1) : ~hits[j]) - 1
  ELSE -1

\* the search of the active group without the 0.15 s of grace
FindActiveGroup_withoutGrace(groups, t) ==
  FirstIndex([k \in 1..Len(groups) |-> t >= groups[k].start /\ t <= groups[k].end])

\* for (const g of groups) if (t >= g.start && t <= g.end + 0.15) ...
FindActiveGroup(groups, t) ==
  FirstIndex([k \in 1..Len(groups) |->
               t >= groups[k].start /\ t <= groups[k].end + GRACE])

\* the first loop alone: the word that contains t
FindActiveWord_withoutFallback(ws, t) ==
  FirstIndex([k \in 1..Len(ws) |-> t >= ws[k].start /\ t <= ws[k].end])

\* the two loops that choose the active word of a group whose words all exist
FindActiveWord(ws, t) ==
  LET hit == FirstIndex([k \in 1..Len(ws) |-> t >= ws[k].start /\ t <= ws[k].end])
  IN  IF hit # -1 THEN hit
      ELSE IF \E k \in 1..Len(ws) : t >= ws[k].start
      THEN (CHOOSE k \in 1..Len(ws) :
              t >= ws[k].start /\ \A j \in (k + 1)..Len(ws) : ~(t >= ws[j].start)) - 1
      ELSE -1

\* String.prototype.toUpperCase on the letters of the transcripts
UpperChar(c) ==
  CASE c = "a" -> "A" [] c = "b" -> "B" [] c = "g" -> "G" [] c = "h" -> "H"
    [] c = "i" -> "I" [] c = "k" -> "K" [] c = "n" -> "N" [] c = "o" -> "O"
    [] c = "p" -> "P" [] c = "u" -> "U" [] c = "y" -> "Y" [] OTHER -> c
RECURSIVE ToUpperCase(_)
ToUpperCase(t) ==
  IF t = <<>> THEN <<>> ELSE <<UpperChar(Head(t))>> \o ToUpperCase(Tail(t))
Shown(t) == IF style.uppercase THEN ToUpperCase(t) ELSE t

RECURSIVE ShownTexts(_)
ShownTexts(ws) ==
  IF ws = <<>> THEN <<>> ELSE <<Shown(Head(ws).text)>> \o ShownTexts(Tail(ws))

\* the spans of the dynamic mode: text, highlighted or not, per-word style
RECURSIVE DynamicSpans(_, _, _)
DynamicSpans(ws, i, activeIdx) ==
  IF i >= Len(ws) THEN <<>>
  ELSE << [ text |-> Shown(ws[i + 1].text),
            isActive |-> (i = activeIdx),
            style |-> ws[i + 1].style ] >> \o DynamicSpans(ws, i + 1, activeIdx)

\* the caption part of onTimeUpdate at time t: the next value of sync
Caption(t) ==
  LET groups == getActiveGroups
      gi == FindActiveGroup(groups, t)
  IN  IF gi = -1
      THEN [ lastGroupKey |-> <<>>, resolved |-> TRUE, activeGroup |-> -1,
             activeIdx |-> -1, entrance |-> FALSE, preview |-> <<>> ]
      ELSE LET g == groups[gi + 1]
               key == <<g.start, g.end>>
           IN  IF \E k \in 1..Len(g.words) : ~IsWord(g.words[k])
               THEN \* a word of the group is undefined: reading it throws
                    [sync EXCEPT !.resolved = TRUE, !.activeGroup = gi,
                                 !.activeIdx = -1, !.entrance = FALSE]
               ELSE LET activeIdx == FindActiveWord(g.words, t)
                    IN  IF ~useDynamicMode
                        THEN IF key # sync.lastGroupKey
                             THEN [ lastGroupKey |-> key, resolved |-> TRUE,
                                    activeGroup |-> gi, activeIdx |-> activeIdx,
                                    entrance |-> TRUE,
                                    preview |-> << [ text |-> JoinSpace(ShownTexts(g.words)),
                                                     isActive |-> FALSE,
                                                     style |-> "sentence" ] >> ]
                             ELSE [sync EXCEPT !.resolved = TRUE, !.activeGroup = gi,
                                               !.activeIdx = activeIdx,
                                               !.entrance = FALSE]
                        ELSE [ lastGroupKey |-> key, resolved |-> TRUE,
                               activeGroup |-> gi, activeIdx |-> activeIdx,
                               entrance |-> (key # sync.lastGroupKey),
                               preview |-> DynamicSpans(g.words, 0, activeIdx) ]

\* the removed segment the skip loop stops at, as a 0-based position, or -1
SkipHit(segs, t) ==
  FirstIndex([k \in 1..Len(segs) |->
               /\ ~segs[k].active
               /\ t >= segs[k].start
               /\ t < segs[k].end - SKIP_TOLERANCE])

\* the search of the next active segment started at the first segment
NextActive_fromFirstSegment(segs, seg) ==
  FirstIndex([k \in 1..Len(segs) |-> segs[k].active])

\* segs.find(s => s.active && s.start >= seg.start), as a 0-based position
NextActive(segs, seg) ==
  FirstIndex([k \in 1..Len(segs) |-> segs[k].active /\ segs[k].start >= seg.start])

onTimeUpdate ==
  /\ InEditor
  /\ Ran([name |-> "onTimeUpdate", t |-> video.currentTime, paused |-> video.paused])
  /\ LET t == video.currentTime
         segs == getSegments(video.duration)
         hit == IF Len(splitPoints) > 0 /\ ~video.paused /\ video.duration > 0
                THEN SkipHit(segs, t) ELSE -1
     IN  IF hit # -1
         THEN LET seg == segs[hit + 1]
                  nextActive == NextActive(segs, seg)
              IN  /\ video' = IF nextActive # -1
                              THEN [video EXCEPT !.currentTime = segs[nextActive + 1].start]
                              ELSE [video EXCEPT !.paused = TRUE]
                  /\ sync' = [sync EXCEPT !.resolved = FALSE, !.activeGroup = -1,
                                          !.activeIdx = -1, !.entrance = FALSE]
         ELSE /\ video' = video
              /\ sync' = Caption(t)
  /\ UNCHANGED << currentView, activeTab, words, videoFilename,
                  selectedWordIndices, lastClickedIndex, customGroups,
                  useCustomGroups, useDynamicMode, style, undoStack, redoStack,
                  currentTime, splitPoints, removedSegments, mergeContext,
                  duration, pending >>
  /\ UNCHANGED << groupDrag, cutter >>

\* the play / pause control of the video element and the space key
togglePlay ==
  /\ InEditor /\ ~mergeContext.open
  /\ Ran([name |-> "togglePlay"])
  /\ video' = [video EXCEPT !.paused = ~video.paused]
  /\ UNCHANGED << currentView, activeTab, words, videoFilename,
                  selectedWordIndices, lastClickedIndex, customGroups,
                  useCustomGroups, useDynamicMode, style, undoStack, redoStack,
                  currentTime, splitPoints, removedSegments, mergeContext,
                  duration, pending, sync >>
  /\ UNCHANGED << groupDrag, cutter >>

\* ----------------------------------------------------- the specifications

InitStore ==
  /\ currentView = "upload"
  /\ activeTab = "transcript"
  /\ words = <<>>
  /\ videoFilename = ""
  /\ selectedWordIndices = <<>>
  /\ lastClickedIndex = -1
  /\ customGroups = <<>>
  /\ useCustomGroups = FALSE
  /\ useDynamicMode = TRUE
  /\ style = [wpg |-> DEFAULT_WPG, uppercase |-> TRUE, preset |-> "default"]
  /\ undoStack = <<>>
  /\ redoStack = <<>>
  /\ currentTime = 0
  /\ splitPoints = <<>>
  /\ removedSegments = <<>>
  /\ mergeContext = NoContext
  /\ duration = 0
  /\ video = [currentTime |-> 0, paused |-> TRUE, duration |-> 0]
  /\ pending = <<>>
  /\ groupDrag = NoDrag
  /\ cutter = [active |-> FALSE, status |-> "", error |-> FALSE, downloadUrl |-> FALSE,
              pollTimer |-> 0, timers |-> {}, starting |-> 0, server |-> <<>>,
              inFlight |-> <<>>, applied |-> <<>>,
              overlapped |-> FALSE]
  /\ sync = NoSync
  /\ lastOp = [name |-> "init"]
  /\ prevOp = "init"
  /\ pre = Before

Init ==
  /\ InitStore
  /\ fuel = MaxOps

TranscriptActions ==
  \/ \E kind \in {"plain", "ctrl", "shift"}, i \in WordIndices : handleWordClick(kind, i)
  \/ \E i \in WordIndices : \E input \in EditInputs \cup {words[i + 1].text} : editWord(i, input)
  \/ \E i \in WordIndices : deleteWord(i)
  \/ openMergeModal
  \/ \E typed \in {mergeContext.text, <<" ">>} : confirmMerge(typed)
  \/ closeMergeModal

GroupActions ==
  \/ \E w \in WpgInputs : onWpgChange(w)
  \/ resetToAuto
  \/ \E gi \in GroupIndices, f \in {"start", "end"}, v \in TimingInputs : setTiming(gi, f, v)
  \/ \E gi \in GroupIndices, f \in {"start", "end"}, d \in {-100, 100} : nudgeTiming(gi, f, d)
  \/ \E gi \in GroupIndices : \E wi \in 0..Len(customGroups[gi + 1].word_indices) : splitBefore(gi, wi)
  \/ \E gi \in GroupIndices : mergeWithPrev(gi)
  \/ \E gi \in GroupIndices : mergeWithNext(gi)
  \/ \E gi \in GroupIndices : moveFirstToPrev(gi)
  \/ \E gi \in GroupIndices : moveLastToNext(gi)

SegmentActions ==
  \/ addSplitAtPlayhead
  \/ \E i \in 0..Len(splitPoints) : handleToggleSegment(i)
  \/ \E i \in 0..(Len(splitPoints) - 1) : handleRemoveSplit(i)
  \/ toggleSegment
  \/ removeSplitPoint

Next ==
  \/ \E ws \in Transcripts : loadTranscription(ws)
  \/ \E d \in Durations : onLoadedMetadata(d)
  \/ tick
  \/ \E t \in SeekTimes : seek(t)
  \/ \E tab \in {"transcript", "groups"} : switchTab(tab)
  \/ TranscriptActions
  \/ GroupActions
  \/ \E picked \in {"styled"} : applyWordStyle(picked)
  \/ clearWordStyles
  \/ SegmentActions
  \/ undoAction
  \/ redoAction

Spec == Init /\ [][Next]_vars

\* the grouping functions on their own: transcripts of every length up to
\* MaxAutoWords, every position of the words-per-group slider
AutoTranscripts == { SubSeq(Transcript, 1, n) : n \in 0..MaxAutoWords }
WpgSlider == 1..12

InitAuto ==
  /\ InitStore
  /\ fuel = MaxAutoOps

NextAuto ==
  \/ \E ws \in AutoTranscripts : loadTranscription(ws)
  \/ \E tab \in {"transcript", "groups"} : switchTab(tab)
  \/ \E w \in WpgSlider : onWpgChange(w)
  \/ resetToAuto
  \/ \E ws \in AutoTranscripts : reTranscribe(ws)

SpecAuto == InitAuto /\ [][NextAuto]_vars

\* getSegments on its own: the sorted split points and the removed segments
\* the editor can hold, every duration a caller can pass
SplitTimes == { 5000 * k : k \in 1..MaxSplits }
SegDurations == { 0, 4000, 15000 }

\* a read of the segments by one of the callers of getSegments
readSegments(d) ==
  /\ InEditor
  /\ Ran([name |-> "getSegments", duration |-> d, result |-> getSegments(d)])
  /\ UNCHANGED << currentView, activeTab, words, videoFilename,
                  selectedWordIndices, lastClickedIndex, customGroups,
                  useCustomGroups, useDynamicMode, style, undoStack, redoStack,
                  currentTime, splitPoints, removedSegments, mergeContext,
                  duration, video, pending, sync >>
  /\ UNCHANGED << groupDrag, cutter >>

InitSeg ==
  /\ currentView = "editor"
  /\ activeTab = "transcript"
  /\ words = SubSeq(Transcript, 1, 1)
  /\ videoFilename = "clip.mp4"
  /\ selectedWordIndices = <<>>
  /\ lastClickedIndex = -1
  /\ style = [wpg |-> DEFAULT_WPG, uppercase |-> TRUE, preset |-> "default"]
  /\ customGroups = regenerateAutoGroups(words, style)
  /\ useCustomGroups = FALSE
  /\ useDynamicMode = TRUE
  /\ undoStack = <<>>
  /\ redoStack = <<>>
  /\ currentTime = 0
  /\ \E P \in SUBSET SplitTimes :
       /\ splitPoints = SortedSeq(P)
       /\ \E R \in SUBSET (0..Cardinality(P)) :
            /\ P = {} => R = {}
            /\ removedSegments = SortedSeq(R)
  /\ mergeContext = NoContext
  /\ duration = 15000
  /\ video = [currentTime |-> 0, paused |-> TRUE, duration |-> 15000]
  /\ pending = <<>>
  /\ groupDrag = NoDrag
  /\ cutter = [active |-> FALSE, status |-> "", error |-> FALSE, downloadUrl |-> FALSE,
              pollTimer |-> 0, timers |-> {}, starting |-> 0, server |-> <<>>,
              inFlight |-> <<>>, applied |-> <<>>,
              overlapped |-> FALSE]
  /\ sync = NoSync
  /\ lastOp = [name |-> "init"]
  /\ prevOp = "init"
  /\ pre = Before
  /\ fuel = MaxSegOps

NextSeg == \E d \in SegDurations : readSegments(d)

SpecSeg == InitSeg /\ [][NextSeg]_vars

\* merging on the transcript tab, with undo and redo
MergeTranscripts == { SubSeq(Transcript, 1, n) : n \in 2..MaxMergeWords }

InitMerge ==
  /\ InitStore
  /\ fuel = MaxMergeOps

NextMerge ==
  \/ \E ws \in MergeTranscripts : loadTranscription(ws)
  \/ \E kind \in {"plain", "ctrl", "shift"}, i \in WordIndices : handleWordClick(kind, i)
  \/ \E picked \in {"styled"} : applyWordStyle(picked)
  \/ openMergeModal
  \/ \E typed \in {mergeContext.text, <<" ">>} : confirmMerge(typed)
  \/ closeMergeModal
  \/ undoAction
  \/ redoAction

SpecMerge == InitMerge /\ [][NextMerge]_vars

\* playback in an editor that holds groups, cuts and removed segments
PlayTimes == { 0, 2100, 2150, 2160, 2500, 4940, 4950, 7000, 12000 }
PlayCuts == { <<>>, <<5000>>, <<5000, 10000>> }

InitPlay ==
  /\ currentView = "editor"
  /\ activeTab = "transcript"
  /\ words \in { TranscriptGap, SubSeq(Transcript, 1, 3) }
  /\ videoFilename = "clip.mp4"
  /\ selectedWordIndices = <<>>
  /\ lastClickedIndex = -1
  /\ \E w \in {1, DEFAULT_WPG} :
       /\ style = [wpg |-> w, uppercase |-> TRUE, preset |-> "default"]
       /\ useCustomGroups \in (IF w = DEFAULT_WPG THEN BOOLEAN ELSE {TRUE})
  /\ customGroups = regenerateAutoGroups(words, style)
  /\ useDynamicMode \in BOOLEAN
  /\ undoStack = <<>>
  /\ redoStack = <<>>
  /\ currentTime = 0
  /\ splitPoints \in PlayCuts
  /\ \E R \in SUBSET (0..Len(splitPoints)) :
       /\ splitPoints = <<>> => R = {}
       /\ removedSegments = SortedSeq(R)
  /\ mergeContext = NoContext
  /\ duration = 15000
  /\ video = [currentTime |-> 0, paused |-> TRUE, duration |-> 15000]
  /\ pending = <<>>
  /\ groupDrag = NoDrag
  /\ cutter = [active |-> FALSE, status |-> "", error |-> FALSE, downloadUrl |-> FALSE,
              pollTimer |-> 0, timers |-> {}, starting |-> 0, server |-> <<>>,
              inFlight |-> <<>>, applied |-> <<>>,
              overlapped |-> FALSE]
  /\ sync = NoSync
  /\ lastOp = [name |-> "init"]
  /\ prevOp = "init"
  /\ pre = Before
  /\ fuel = MaxPlayOps

NextPlay ==
  \/ togglePlay
  \/ \E t \in PlayTimes : seek(t)
  \/ tick
  \/ onTimeUpdate

SpecPlay == InitPlay /\ [][NextPlay]_vars

\* a long editing session on one word: each edit types one more letter
HistoryEdits ==
  IF words # <<>> /\ Len(words[1].text) < 2 + MaxHistEdits
  THEN { words[1].text \o <<"x">> }
  ELSE {}

InitHistory ==
  /\ InitStore
  /\ fuel = MaxHistOps

NextHistory ==
  \/ loadTranscription(SubSeq(Transcript, 1, 1))
  \/ \E input \in HistoryEdits : editWord(0, input)
  \/ undoAction

SpecHistory == InitHistory /\ [][NextHistory]_vars

\* ------------------------------------------- Timeline.js, group timing drag
\* what the drag of a group handle never changes
DragOnly ==
  UNCHANGED << currentView, activeTab, words, videoFilename,
               selectedWordIndices, lastClickedIndex, useDynamicMode, style,
               currentTime, splitPoints, removedSegments, mergeContext,
               duration, pending, sync, cutter >>

\* mousedown on a handle of block gi of the groups track; ensureCustomGroups
\* switches to Custom mode first and then takes the snapshot
onGroupHandleMouseDown(gi, mode) ==
  /\ InEditor /\ ~mergeContext.open
  /\ groupDrag = NoDrag
  /\ cutter = [active |-> FALSE, status |-> "", error |-> FALSE, downloadUrl |-> FALSE,
              pollTimer |-> 0, timers |-> {}, starting |-> 0, server |-> <<>>,
              inFlight |-> <<>>, applied |-> <<>>,
              overlapped |-> FALSE]
  /\ gi \in 0..(Len(getActiveGroups) - 1)
  /\ Ran([name |-> "onGroupHandleMouseDown", gi |-> gi, mode |-> mode])
  /\ LET gs == IF useCustomGroups THEN customGroups
               ELSE regenerateAutoGroups(words, style)
         snapshot == [captureState("Drag timing group") EXCEPT
                        !.groups = gs, !.useCustomGroups = TRUE]
         pushed == Append(undoStack, snapshot)
     IN  /\ customGroups' = gs
         /\ useCustomGroups' = TRUE
         /\ undoStack' = IF Len(pushed) > MAX_UNDO THEN Tail(pushed) ELSE pushed
         /\ redoStack' = <<>>
         /\ groupDrag' = [mode |-> mode, gi |-> gi,
                          origStart |-> gs[gi + 1].start,
                          origEnd |-> gs[gi + 1].end]
  /\ UNCHANGED video
  /\ DragOnly

\* mousemove while a handle is held; dt is the pointer's travel on the track
\* scaled to the duration, (dx / trackWidth) * duration
onWindowMouseMove(travel) ==
  /\ InEditor
  /\ groupDrag # NoDrag
  /\ Ran([name |-> "onWindowMouseMove", travel |-> travel])
  /\ LET d == groupDrag
         dt == IF duration = 0 THEN 0 ELSE travel
         blockDur == d.origEnd - d.origStart
         newStart == Max(0, Min(d.origStart + dt, duration - blockDur))
     IN  customGroups' =
           IF d.gi \notin GroupIndices THEN customGroups
           ELSE IF d.mode = "start"
           THEN [customGroups EXCEPT ![d.gi + 1].start =
                   Round10(Max(0, Min(d.origStart + dt, d.origEnd - 100)))]
           ELSE IF d.mode = "end"
           THEN [customGroups EXCEPT ![d.gi + 1].end =
                   Round10(Max(d.origStart + 100, Min(d.origEnd + dt, duration)))]
           ELSE [customGroups EXCEPT ![d.gi + 1].start = Round10(newStart),
                                     ![d.gi + 1].end = Round10(newStart + blockDur)]
  /\ UNCHANGED << useCustomGroups, undoStack, redoStack, groupDrag, video >>
  /\ DragOnly

\* mouseup: seek to the start of the dragged group and drop the drag
onWindowMouseUp ==
  /\ InEditor
  /\ groupDrag # NoDrag
  /\ Ran([name |-> "onWindowMouseUp"])
  /\ video' = IF groupDrag.gi \in GroupIndices
              THEN [video EXCEPT !.currentTime = customGroups[groupDrag.gi + 1].start]
              ELSE video
  /\ groupDrag' = NoDrag
  /\ UNCHANGED << customGroups, useCustomGroups, undoStack, redoStack >>
  /\ DragOnly

\* the drag of the group handles: the pointer's travel, in milliseconds of video
DragTravels == { -300, 300 }

InitDrag ==
  /\ InitStore
  /\ fuel = MaxDragOps

NextDrag ==
  \/ \E ws \in Transcripts : loadTranscription(ws)
  \/ \E d \in Durations : onLoadedMetadata(d)
  \/ \E tab \in {"transcript", "groups"} : switchTab(tab)
  \/ \E gi \in 0..(Len(getActiveGroups) - 1), mode \in {"start", "end", "move"} :
       onGroupHandleMouseDown(gi, mode)
  \/ \E travel \in DragTravels : onWindowMouseMove(travel)
  \/ onWindowMouseUp
  \/ undoAction
  \/ redoAction

SpecDrag == InitDrag /\ [][NextDrag]_vars

\* ------------------------------------------------------- RenderOverlay.js
\* the ranges of the removed segments instead: segs.filter(s => !s.active)
RECURSIVE ActiveRanges_ofRemoved(_)
ActiveRanges_ofRemoved(segs) ==
  IF segs = <<>> THEN <<>>
  ELSE (IF ~Head(segs).active THEN << <<Head(segs).start, Head(segs).end>> >> ELSE <<>>)
       \o ActiveRanges_ofRemoved(Tail(segs))

\* segs.filter(s => s.active).map(s => [s.start, s.end])
RECURSIVE ActiveRanges(_)
ActiveRanges(segs) ==
  IF segs = <<>> THEN <<>>
  ELSE (IF Head(segs).active THEN << <<Head(segs).start, Head(segs).end>> >> ELSE <<>>)
       \o ActiveRanges(Tail(segs))

\* the payload startRender posts, without its style field; a field that is not
\* assigned is not in the record
RenderPayload ==
  LET base == [video_filename |-> videoFilename, words |-> words]
      dur == video.duration
      segs == getSegments(dur)
      activeSegs == ActiveRanges(segs)
      withGroups == useCustomGroups /\ Len(customGroups) > 0
      withSegments ==
        /\ Len(splitPoints) > 0 /\ Len(removedSegments) > 0
        /\ dur > 0
        /\ Len(activeSegs) > 0 /\ Len(activeSegs) < Len(segs)
  IN  IF withGroups /\ withSegments
      THEN [ video_filename |-> videoFilename, words |-> words,
             word_groups |-> customGroups, active_segments |-> activeSegs ]
      ELSE IF withGroups
      THEN [ video_filename |-> videoFilename, words |-> words,
             word_groups |-> customGroups ]
      ELSE IF withSegments
      THEN [ video_filename |-> videoFilename, words |-> words,
             active_segments |-> activeSegs ]
      ELSE base

\* the Render button, up to the request; without words or without a video it
\* alerts and posts nothing
startRender ==
  /\ InEditor /\ ~mergeContext.open
  /\ Ran(IF Len(words) = 0 \/ videoFilename = ""
         THEN [name |-> "startRender", posted |-> FALSE]
         ELSE [name |-> "startRender", posted |-> TRUE, payload |-> RenderPayload])
  /\ UNCHANGED << currentView, activeTab, words, videoFilename,
                  selectedWordIndices, lastClickedIndex, customGroups,
                  useCustomGroups, useDynamicMode, style, undoStack, redoStack,
                  currentTime, splitPoints, removedSegments, mergeContext,
                  duration, video, pending, sync >>
  /\ UNCHANGED << groupDrag, cutter >>

\* the render of a timeline cut at most twice, in either mode
RenderTranscripts == { <<>>, SubSeq(Transcript, 1, 2) }
RenderSeeks == { 5000, 10000 }

InitRender ==
  /\ InitStore
  /\ fuel = MaxRenderOps

NextRender ==
  \/ \E ws \in RenderTranscripts : loadTranscription(ws)
  \/ \E d \in Durations : onLoadedMetadata(d)
  \/ \E t \in RenderSeeks : seek(t)
  \/ tick
  \/ \E tab \in {"groups"} : switchTab(tab)
  \/ addSplitAtPlayhead
  \/ \E i \in 0..Len(splitPoints) : handleToggleSegment(i)
  \/ toggleSegment
  \/ startRender

SpecRender == InitRender /\ [][NextRender]_vars

\* ------------------------------------------------------------ TrimPanel.js
\* remapWordsToTrim: the words overlapping the cut, shifted to its timeline
RECURSIVE remapWordsToTrim(_, _, _)
remapWordsToTrim(ws, inPoint, outPoint) ==
  IF ws = <<>> THEN <<>>
  ELSE LET w == Head(ws)
       IN  (IF w.end > inPoint /\ w.start < outPoint
            THEN << [w EXCEPT !.start = Max(0, w.start - inPoint),
                              !.end = Min(outPoint - inPoint, w.end - inPoint)] >>
            ELSE <<>>)
           \o remapWordsToTrim(Tail(ws), inPoint, outPoint)

\* the poll of a trim job that reports 'done': the words are remapped to the
\* cut and the trimmed file becomes the active video; groups, selection and
\* history stay as they are
trimDone(inPt, outPt) ==
  /\ InEditor /\ ~mergeContext.open
  /\ videoFilename # ""
  /\ outPt > inPt
  /\ Ran([name |-> "trimDone", inPoint |-> inPt, outPoint |-> outPt])
  /\ words' = IF Len(words) > 0 THEN remapWordsToTrim(words, inPt, outPt) ELSE words
  /\ videoFilename' = "trimmed.mp4"
  /\ UNCHANGED << currentView, activeTab, selectedWordIndices, lastClickedIndex,
                  customGroups, useCustomGroups, useDynamicMode, style,
                  undoStack, redoStack, currentTime, splitPoints,
                  removedSegments, mergeContext, duration, video, pending,
                  sync, groupDrag, cutter >>

\* the In and Out points of a cut
TrimPoints == { 0, 450, 1200 }

InitTrim ==
  /\ InitStore
  /\ fuel = MaxTrimOps

NextTrim ==
  \/ \E ws \in Transcripts : loadTranscription(ws)
  \/ \E tab \in {"transcript", "groups"} : switchTab(tab)
  \/ \E inPt \in TrimPoints, outPt \in TrimPoints : trimDone(inPt, outPt)
  \/ \E w \in WpgInputs : onWpgChange(w)
  \/ \E gi \in GroupIndices : mergeWithNext(gi)

SpecTrim == InitTrim /\ [][NextTrim]_vars

\* ------------------------------------------ the split points on their own
\* playhead positions: the start, two cuts far apart, and positions 0.02 s
\* and 0.06 s after a cut (at exactly 0.05 s the outcome of the comparison
\* p - t < 0.05 depends on the rounding of the binary fractions)
SplitSeeks == { 0, 3000, 5000, 5020, 5060 }

InitSplit ==
  /\ InitStore
  /\ fuel = MaxSplitOps

NextSplit ==
  \/ \E ws \in {SubSeq(Transcript, 1, 1)} : loadTranscription(ws)
  \/ \E d \in Durations : onLoadedMetadata(d)
  \/ \E t \in SplitSeeks : seek(t)
  \/ tick
  \/ addSplitAtPlayhead
  \/ \E i \in 0..(Len(splitPoints) - 1) : handleRemoveSplit(i)
  \/ removeSplitPoint
  \/ \E i \in 0..Len(splitPoints) : handleToggleSegment(i)
  \/ toggleSegment
  \/ undoAction
  \/ redoAction

SpecSplit == InitSplit /\ [][NextSplit]_vars

\* ------------------------------------------------ the word list on its own
\* a transcription whose second word lies before its first on the time axis;
\* UploadView takes result.words as the backend delivers them
TranscriptUnordered ==
  << Word(<<"l", "a">>, 1000, 2000), Word(<<"e", "r">>, 500, 800) >>

WordTranscripts == { SubSeq(Transcript, 1, 3), TranscriptUnordered }

InitWords ==
  /\ InitStore
  /\ fuel = MaxWordOps

NextWords ==
  \/ \E ws \in WordTranscripts : loadTranscription(ws)
  \/ \E kind \in {"plain", "shift"}, i \in WordIndices : handleWordClick(kind, i)
  \/ \E i \in WordIndices : \E input \in EditInputs : editWord(i, input)
  \/ \E i \in WordIndices : deleteWord(i)
  \/ openMergeModal
  \/ \E typed \in {mergeContext.text} : confirmMerge(typed)
  \/ undoAction
  \/ redoAction

SpecWords == InitWords /\ [][NextWords]_vars

\* ------------------------------------------- the group list on its own
\* the Groups tab on a four-word transcript: every split, merge and move, with
\* timings set by hand in between
InitGroups ==
  /\ InitStore
  /\ fuel = MaxGroupOps

NextGroups ==
  \/ \E ws \in {SubSeq(Transcript, 1, 4)} : loadTranscription(ws)
  \/ \E tab \in {"groups"} : switchTab(tab)
  \/ \E gi \in GroupIndices, f \in {"start", "end"}, v \in TimingInputs : setTiming(gi, f, v)
  \/ \E gi \in GroupIndices : \E wi \in 0..Len(customGroups[gi + 1].word_indices) : splitBefore(gi, wi)
  \/ \E gi \in GroupIndices : mergeWithPrev(gi)
  \/ \E gi \in GroupIndices : mergeWithNext(gi)
  \/ \E gi \in GroupIndices : moveFirstToPrev(gi)
  \/ \E gi \in GroupIndices : moveLastToNext(gi)
  \/ undoAction

SpecGroups == InitGroups /\ [][NextGroups]_vars

\* ----------------------------------- the timing of a group set by hand
\* what the user types into the start / end field of a group
TypedTimes == { 250, 2000 }

InitTiming ==
  /\ InitStore
  /\ fuel = MaxTimingOps

NextTiming ==
  \/ \E ws \in {SubSeq(Transcript, 1, 3)} : loadTranscription(ws)
  \/ \E d \in Durations : onLoadedMetadata(d)
  \/ \E tab \in {"groups"} : switchTab(tab)
  \/ \E gi \in GroupIndices, f \in {"start", "end"}, v \in TypedTimes : setTiming(gi, f, v)
  \/ \E gi \in GroupIndices, f \in {"start", "end"}, d \in {-100, 100} : nudgeTiming(gi, f, d)
  \/ \E gi \in 0..(Len(getActiveGroups) - 1), mode \in {"start", "end", "move"} :
       onGroupHandleMouseDown(gi, mode)
  \/ \E travel \in DragTravels : onWindowMouseMove(travel)
  \/ onWindowMouseUp

SpecTiming == InitTiming /\ [][NextTiming]_vars

\* --------------------------------------- the caption of the preview alone
\* positions inside words, between words, in the 0.15 s after a group and
\* where no group is
CaptionTimes == { 0, 450, 520, 700, 950, 2100, 4100, 12000 }

InitCaption ==
  /\ currentView = "editor"
  /\ activeTab = "transcript"
  /\ words \in { TranscriptGap, SubSeq(Transcript, 1, 3) }
  /\ videoFilename = "clip.mp4"
  /\ selectedWordIndices = <<>>
  /\ lastClickedIndex = -1
  /\ \E w \in {1, DEFAULT_WPG} :
       style = [wpg |-> w, uppercase |-> TRUE, preset |-> "default"]
  /\ useCustomGroups = FALSE
  /\ customGroups = regenerateAutoGroups(words, style)
  /\ useDynamicMode = TRUE
  /\ undoStack = <<>>
  /\ redoStack = <<>>
  /\ currentTime = 0
  /\ splitPoints = <<>>
  /\ removedSegments = <<>>
  /\ mergeContext = NoContext
  /\ duration = 15000
  /\ video = [currentTime |-> 0, paused |-> TRUE, duration |-> 15000]
  /\ pending = <<>>
  /\ groupDrag = NoDrag
  /\ cutter = [active |-> FALSE, status |-> "", error |-> FALSE, downloadUrl |-> FALSE,
              pollTimer |-> 0, timers |-> {}, starting |-> 0, server |-> <<>>,
              inFlight |-> <<>>, applied |-> <<>>,
              overlapped |-> FALSE]
  /\ sync = NoSync
  /\ lastOp = [name |-> "init"]
  /\ prevOp = "init"
  /\ pre = Before
  /\ fuel = MaxCaptionOps

NextCaption ==
  \/ \E t \in CaptionTimes : seek(t)
  \/ onTimeUpdate
  \/ \E mode \in {"dynamic", "static"}, up \in BOOLEAN : setSubtitleMode(mode, up)

SpecCaption == InitCaption /\ [][NextCaption]_vars

\* ----------------------------- the caption while the transcript is edited
\* positions inside the first, the second and the third word
LiveTimes == { 200, 700, 1200 }

InitLive ==
  /\ InitStore
  /\ fuel = MaxLiveOps

NextLive ==
  \/ \E ws \in {SubSeq(Transcript, 1, 3)} : loadTranscription(ws)
  \/ \E t \in LiveTimes : seek(t)
  \/ onTimeUpdate
  \/ \E mode \in {"dynamic", "static"}, up \in {TRUE} : setSubtitleMode(mode, up)
  \/ \E i \in WordIndices : \E input \in EditInputs : editWord(i, input)
  \/ \E i \in WordIndices : deleteWord(i)
  \/ \E kind \in {"plain", "shift"}, i \in WordIndices : handleWordClick(kind, i)
  \/ openMergeModal
  \/ \E typed \in {mergeContext.text} : confirmMerge(typed)

SpecLive == InitLive /\ [][NextLive]_vars

\* ------------------------------ the switches of caption mode and group mode
InitModes ==
  /\ InitStore
  /\ fuel = MaxModeOps

NextModes ==
  \/ \E ws \in {SubSeq(Transcript, 1, 3)} : loadTranscription(ws)
  \/ \E d \in Durations : onLoadedMetadata(d)
  \/ \E mode \in {"dynamic", "static"}, up \in BOOLEAN : setSubtitleMode(mode, up)
  \/ \E gi \in 0..(Len(getActiveGroups) - 1), mode \in {"start", "end", "move"} :
       onGroupHandleMouseDown(gi, mode)
  \/ \E travel \in DragTravels : onWindowMouseMove(travel)
  \/ onWindowMouseUp
  \/ undoAction
  \/ redoAction

SpecModes == InitModes /\ [][NextModes]_vars

\* ------------------------------------ both history stacks at their capacity
\* the long editing session again, now with redo: the edits fill the undo
\* stack, and from one snapshot below MAX_UNDO on undo and redo are explored
\* in every order with the edits
NearCapacity == Len(undoStack) + Len(redoStack) >= MAX_UNDO - 1

InitStacks ==
  /\ InitStore
  /\ fuel = MaxStackOps

NextStacks ==
  \/ loadTranscription(SubSeq(Transcript, 1, 1))
  \/ \E input \in HistoryEdits : editWord(0, input)
  \/ NearCapacity /\ undoAction
  \/ NearCapacity /\ redoAction

SpecStacks == InitStacks /\ [][NextStacks]_vars


\* ------------------------------------- TranscriptPanel.js, SilenceCutterPanel
\* remapTime(t, segments) from segment i on, offset being the length kept so far
RECURSIVE remapTime(_, _, _, _)
remapTime(t, segments, i, offset) ==
  IF i > Len(segments) THEN offset
  ELSE LET s == segments[i][1]
           e == segments[i][2]
       IN  IF t <= e
           THEN (IF t >= s THEN offset + (t - s) ELSE offset)
           ELSE remapTime(t, segments, i + 1, offset + (e - s))

\* applyToEditor(filename, segments); toFixed(4) keeps a tenth of a
\* millisecond and so every time of the model
applyToEditor(filename, segments) ==
  LET remapWords == [k \in 1..Len(words) |->
                       [words[k] EXCEPT
                          !.start = remapTime(words[k].start, segments, 1, 0),
                          !.end = remapTime(words[k].end, segments, 1, 0)]]
      Retimed(g) ==
        LET idxs == SelectSeq(g.word_indices, LAMBDA i : i \in WordIndices)
        IN  IF idxs = <<>> THEN g
            ELSE [g EXCEPT !.start = remapWords[idxs[1] + 1].start,
                           !.end = remapWords[idxs[Len(idxs)] + 1].end]
  IN  /\ saveUndoSnapshot("Cut silence")
      /\ words' = IF Len(segments) > 0 THEN remapWords ELSE words
      /\ customGroups' =
           IF Len(segments) = 0 THEN customGroups
           ELSE IF useCustomGroups /\ Len(customGroups) > 0
           THEN [k \in 1..Len(customGroups) |-> Retimed(customGroups[k])]
           ELSE regenerateAutoGroups(remapWords, style)
      /\ splitPoints' = <<>>
      /\ removedSegments' = <<>>
      /\ videoFilename' = filename

\* startCut: up to the await of startCutSilenceJob ("call"), and from the
\* answer on ("resumed"), where the request succeeded or was rejected
startCut(phase, ok) ==
  /\ InEditor
  /\ IF phase = "call"
     THEN /\ words # <<>>
          /\ ~cutter.active
          /\ Len(cutter.server) + cutter.starting < MaxJobs
          /\ Ran([name |-> "startCut"])
          /\ cutter' = [cutter EXCEPT
                          !.timers = @ \ {cutter.pollTimer},
                          !.pollTimer = 0,
                          !.active = TRUE,
                          !.status = "queued",
                          !.error = FALSE,
                          !.downloadUrl = FALSE,
                          !.starting = @ + 1]
     ELSE /\ cutter.starting > 0
          /\ Ran([name |-> "startCut resumed", ok |-> ok])
          /\ cutter' =
               IF ok
               THEN LET job_id == Len(cutter.server) + 1
                    IN  [cutter EXCEPT
                           !.starting = @ - 1,
                           !.server = Append(@, [status |-> "processing",
                                                 segments |-> <<>>]),
                           !.pollTimer = job_id,
                           !.timers = @ \cup {job_id}]
               ELSE [cutter EXCEPT
                       !.starting = @ - 1,
                       !.active = FALSE,
                       !.status = "error",
                       !.error = TRUE]
  /\ UNCHANGED << currentView, activeTab, words, videoFilename,
                  selectedWordIndices, lastClickedIndex, customGroups,
                  useCustomGroups, useDynamicMode, style, undoStack, redoStack,
                  currentTime, splitPoints, removedSegments, mergeContext,
                  duration, video, pending, sync, groupDrag >>

\* the callback of setInterval for the job job_id: up to the await of
\* pollCutSilenceStatus ("call": the interval fires and the server answers
\* with the status the job has or reaches then, or the request fails), and
\* from the arrival of answer k on ("resumed")
poll(phase, job_id, outcome, segments, k) ==
  /\ InEditor
  /\ IF phase = "call"
     THEN /\ job_id \in cutter.timers
          /\ Len(cutter.inFlight) < MaxInFlight
          /\ LET job == cutter.server[job_id]
                 now == IF job.status = "processing" /\ outcome # "rejected"
                        THEN [status |-> outcome,
                              segments |-> IF outcome = "done" THEN segments ELSE <<>>]
                        ELSE job
             IN  /\ Ran([name |-> "poll", job |-> job_id])
                 /\ cutter' = [cutter EXCEPT
                                 !.server[job_id] = now,
                                 !.overlapped = @ \/ cutter.inFlight # <<>>,
                                 !.inFlight = Append(@,
                                    [ job |-> job_id,
                                      status |-> IF outcome = "rejected"
                                                 THEN "rejected" ELSE now.status,
                                      segments |-> now.segments ])]
          /\ UNCHANGED << words, videoFilename, customGroups, undoStack,
                          redoStack, splitPoints, removedSegments >>
     ELSE /\ k \in 1..Len(cutter.inFlight)
          /\ LET data == cutter.inFlight[k]
                 rest == [cutter EXCEPT !.inFlight = Splice(@, k - 1, 1, <<>>)]
                 stopped == [rest EXCEPT !.timers = @ \ {cutter.pollTimer},
                                         !.pollTimer = 0,
                                         !.active = FALSE]
             IN  /\ Ran([name |-> "poll resumed", job |-> data.job,
                         status |-> data.status,
                         polling |-> cutter.pollTimer = data.job])
                 /\ IF data.status = "done"
                    THEN /\ cutter' = [stopped EXCEPT
                                         !.status = "done",
                                         !.downloadUrl = TRUE,
                                         !.applied = Append(@, data.job)]
                         /\ applyToEditor("clip_cut.mp4", data.segments)
                    ELSE /\ cutter' =
                              IF data.status = "rejected"
                              THEN [stopped EXCEPT !.error = TRUE]
                              ELSE IF data.status = "error"
                              THEN [stopped EXCEPT !.status = "error", !.error = TRUE]
                              ELSE [rest EXCEPT !.status = data.status]
                         /\ UNCHANGED << words, videoFilename, customGroups,
                                         undoStack, redoStack, splitPoints,
                                         removedSegments >>
  /\ UNCHANGED << currentView, activeTab, selectedWordIndices,
                  lastClickedIndex, useCustomGroups, useDynamicMode, style,
                  currentTime, mergeContext, duration, video, pending, sync,
                  groupDrag >>

\* reset: "Try again" of the error box, "Cut another" of the result box
reset ==
  /\ InEditor
  /\ cutter.error \/ (cutter.status = "done" /\ cutter.downloadUrl)
  /\ Ran([name |-> "reset"])
  /\ cutter' = [cutter EXCEPT !.timers = @ \ {cutter.pollTimer},
                              !.pollTimer = 0,
                              !.active = FALSE,
                              !.status = "",
                              !.error = FALSE,
                              !.downloadUrl = FALSE]
  /\ UNCHANGED << currentView, activeTab, words, videoFilename,
                  selectedWordIndices, lastClickedIndex, customGroups,
                  useCustomGroups, useDynamicMode, style, undoStack, redoStack,
                  currentTime, splitPoints, removedSegments, mergeContext,
                  duration, video, pending, sync, groupDrag >>

InitCut ==
  /\ InitStore
  /\ fuel = MaxCutOps

NextCut ==
  \/ \E ws \in {SubSeq(Transcript, 1, 3)} : loadTranscription(ws)
  \/ \E ok \in BOOLEAN : startCut("call", ok)
  \/ \E ok \in BOOLEAN : startCut("resumed", ok)
  \/ \E j \in 1..MaxJobs, outcome \in {"processing", "done", "error", "rejected"},
        segments \in { <<>>, << <<0, 400>>, <<500, 900>>, <<1000, 1500>> >> } :
       poll("call", j, outcome, segments, 0)
  \/ \E k \in 1..MaxInFlight : poll("resumed", 0, "", <<>>, k)
  \/ reset
  \/ undoAction

SpecCut == InitCut /\ [][NextCut]_vars

\* ------------------------------------------------------------- properties
\* a step that is one invocation of the handler called name
Step(name) == fuel' = fuel - 1 /\ lastOp'.name = name

\* the editable state recorded in a snapshot
Recorded(snapshot) ==
  [ words |-> snapshot.words, groups |-> snapshot.groups,
    style |-> snapshot.style, videoFilename |-> snapshot.videoFilename,
    splitPoints |-> snapshot.splitPoints,
    removedSegments |-> snapshot.removedSegments,
    useCustomGroups |-> snapshot.useCustomGroups,
    useDynamicMode |-> snapshot.useDynamicMode ]

RECURSIVE GroupIndexLists(_)
GroupIndexLists(gs) ==
  IF gs = <<>> THEN <<>> ELSE <<Head(gs).word_indices>> \o GroupIndexLists(Tail(gs))

RECURSIVE GroupWordLists(_)
GroupWordLists(gs) ==
  IF gs = <<>> THEN <<>> ELSE <<Head(gs).words>> \o GroupWordLists(Tail(gs))

\* C1: in every state reached by the editing handlers, undo and redo, the
\* word_indices of the store's groups, concatenated in list order, are exactly
\* 0 .. len(words)-1 ascending, and the groups handed to the consumers
\* (getActiveGroups, Auto or Custom mode) hold exactly the words in order.
C1_Partition ==
  /\ Flatten(GroupIndexLists(customGroups)) = [i \in 1..Len(words) |-> i - 1]
  /\ Flatten(GroupWordLists(getActiveGroups)) = words

\* C1 witness: a word has been moved between two custom groups made by a split
C1_Witness ==
  /\ lastOp.name = "moveFirstToPrev"
  /\ prevOp = "splitBefore"
  /\ useCustomGroups
  /\ customGroups # pre.e.groups

\* the operations C6 lists
SnapshotOps ==
  { "editWord", "deleteWord", "confirmMerge", "applyWordStyle",
    "clearWordStyles", "splitBefore", "mergeWithPrev", "mergeWithNext",
    "moveFirstToPrev", "moveLastToNext", "setTiming", "nudgeTiming",
    "addSplitAtPlayhead", "removeSplitPoint", "toggleSegment" }

\* C6: directly after one of the listed operations has changed the editable
\* state, the top of the undo stack records the state as it was immediately
\* before the operation.
C6_SnapshotBeforeMutation ==
  (lastOp.name \in SnapshotOps /\ Editable # pre.e)
    => /\ undoStack # <<>>
       /\ Recorded(Last(undoStack)) = pre.e

\* C7: undo with a non-empty undo stack appends a snapshot of the current
\* state to the redo stack, removes the top of the undo stack, sets words,
\* split points, removed segments, both mode flags, style and media reference
\* to the values of the removed snapshot, and empties the selection.
C7_Undo ==
  [][ (Step("undo") /\ undoStack # <<>>)
        => /\ redoStack' = Append(redoStack, [label |-> "Redo"] @@ Editable)
           /\ undoStack' = Front(undoStack)
           /\ words' = Last(undoStack).words
           /\ splitPoints' = Last(undoStack).splitPoints
           /\ removedSegments' = Last(undoStack).removedSegments
           /\ useCustomGroups' = Last(undoStack).useCustomGroups
           /\ useDynamicMode' = Last(undoStack).useDynamicMode
           /\ style' = Last(undoStack).style
           /\ videoFilename' = Last(undoStack).videoFilename
           /\ selectedWordIndices' = <<>>
           /\ Len(undoStack') = Len(undoStack) - 1
           /\ Len(redoStack') = Len(redoStack) + 1 ]_vars

\* C7 witness: an undo that changed the words while words were selected
C7_Witness ==
  /\ lastOp.name = "undo"
  /\ pre.nUndo > 0
  /\ pre.selection # <<>>
  /\ words # pre.e.words
  /\ Len(redoStack) = pre.nRedo + 1

\* C8: when the snapshot that undo restores is in Custom mode, the custom
\* groups after the undo are the groups recorded in that snapshot.
C8_UndoKeepsCustomGroups ==
  [][ (Step("undo") /\ undoStack # <<>> /\ Last(undoStack).useCustomGroups)
        => customGroups' = Last(undoStack).groups ]_vars

\* C9: undo directly followed by redo returns words, groups, both mode flags,
\* split points, removed segments and style to their values before the undo
\* and leaves both stacks with their lengths before the undo.
C9_UndoRedo ==
  [][ (lastOp.name = "undo" /\ pre.nUndo > 0 /\ Step("redo"))
        => /\ Editable' = pre.e
           /\ Len(undoStack') = pre.nUndo
           /\ Len(redoStack') = pre.nRedo ]_vars

\* the number of groups of n words taken w at a time
Ceil(n, w) == (n + w - 1) \div w

\* C2: auto grouping of n words with w words per group gives ceil(n/w) groups;
\* group k holds the indices k*w .. min((k+1)*w, n)-1, starts where its first
\* word starts and ends where its last word ends; the groups handed out in
\* Auto mode hold the same words; three words 0-400, 500-900, 1000-1500 with
\* w = 2 give [0,1] over 0-900 and [2] over 1000-1500.
C2_AutoGrouping ==
  LET n == Len(words)
      w == style.wpg
      cnt == Ceil(n, w)
      lo(k) == k * w
      hi(k) == Min((k + 1) * w, n) - 1
  IN  /\ w \in WpgSlider
      /\ Len(customGroups) = cnt
      /\ \A k \in 0..(cnt - 1) :
           /\ customGroups[k + 1].word_indices
                = [j \in 1..(hi(k) - lo(k) + 1) |-> lo(k) + j - 1]
           /\ Len(customGroups[k + 1].word_indices) <= w
           /\ (k < cnt - 1 => Len(customGroups[k + 1].word_indices) = w)
           /\ customGroups[k + 1].start = words[lo(k) + 1].start
           /\ customGroups[k + 1].end = words[hi(k) + 1].end
      /\ ~useCustomGroups =>
           /\ Len(getActiveGroups) = cnt
           /\ \A k \in 0..(cnt - 1) :
                /\ getActiveGroups[k + 1].words = SubSeq(words, lo(k) + 1, hi(k) + 1)
                /\ getActiveGroups[k + 1].start = words[lo(k) + 1].start
                /\ getActiveGroups[k + 1].end = words[hi(k) + 1].end
      /\ ( /\ n = 3 /\ w = 2
           /\ <<words[1].start, words[1].end>> = <<0, 400>>
           /\ <<words[2].start, words[2].end>> = <<500, 900>>
           /\ <<words[3].start, words[3].end>> = <<1000, 1500>> )
           => customGroups =
                << [word_indices |-> <<0, 1>>, start |-> 0, end |-> 900],
                   [word_indices |-> <<2>>, start |-> 1000, end |-> 1500] >>

\* C2 witness: the three words of the example regrouped two at a time
C2_Witness ==
  /\ lastOp.name = "onWpgChange"
  /\ lastOp.wpg = 2
  /\ Len(words) = 3
  /\ Len(customGroups) = 2

\* the segments cover 0 .. D in timeline order without gap or overlap, and
\* segment i is active exactly when i is not among the removed segments
Covers(segs, D) ==
  /\ Len(segs) >= 1
  /\ segs[1].start = 0
  /\ segs[Len(segs)].end = D
  /\ \A i \in 1..(Len(segs) - 1) : segs[i].end = segs[i + 1].start
  /\ \A i \in 1..Len(segs) :
       /\ segs[i].start < segs[i].end
       /\ segs[i].index = i - 1
       /\ segs[i].active = ((i - 1) \notin Range(removedSegments))

C10_MergeRoundTrip ==
  [][ /\ ( /\ lastOp.name = "confirmMerge"
           /\ Len(words) < Len(pre.e.words)
           /\ Step("undo") )
           => words' = pre.e.words
      /\ ( /\ prevOp = "confirmMerge"
           /\ lastOp.name = "undo"
           /\ Len(pre.e.words) < Len(words)
           /\ Step("redo") )
           => /\ words' = pre.e.words
              /\ Editable' = pre.e ]_vars

\* C10 witness: a styled word merged with its neighbours, undone and redone
C10_Witness ==
  /\ lastOp.name = "redo"
  /\ prevOp = "undo"
  /\ Len(words) < Len(pre.e.words)
  /\ \E k \in 1..Len(pre.e.words) : pre.e.words[k].style # "none"
  /\ \E k \in 1..Len(words) : words[k].merged

\* group k (1-based) is showing at time t: start <= t <= end + 0.15 s
InWindow(groups, k, t) == groups[k].start <= t /\ t <= groups[k].end + 150

\* C4: the active group at playback time t is the first group in list order
\* with start <= t <= end + 0.15, and there is none when no group satisfies
\* this; with groups 0-2 and 2.2-4, t = 2.1 gives group 0 and t = 2.5 gives
\* group 1.
C4_ActiveGroup ==
  (lastOp.name = "onTimeUpdate" /\ sync.resolved) =>
    LET t == lastOp.t
        groups == getActiveGroups
        n == Len(groups)
    IN  /\ \A k \in 1..n :
             (InWindow(groups, k, t) /\ \A j \in 1..(k - 1) : ~InWindow(groups, j, t))
               => sync.activeGroup = k - 1
        /\ (\A k \in 1..n : ~InWindow(groups, k, t)) => sync.activeGroup = -1
        /\ ( /\ n = 2
             /\ <<groups[1].start, groups[1].end>> = <<0, 2000>>
             /\ <<groups[2].start, groups[2].end>> = <<2200, 4000>> )
             => /\ t = 2100 => sync.activeGroup = 0
                /\ t = 2500 => sync.activeGroup = 1

\* C4 witness: the groups of the example at t = 2.1, inside the grace of
\* group 0 and before group 1
C4_Witness ==
  /\ lastOp.name = "onTimeUpdate"
  /\ sync.resolved
  /\ lastOp.t = 2100
  /\ Len(getActiveGroups) = 2
  /\ getActiveGroups[1].end = 2000
  /\ getActiveGroups[2].start = 2200
  /\ sync.activeGroup = 0

\* segment k (1-based) is removed and holds t: start <= t < end - 0.05 s
InRemoved(segs, k, t) ==
  ~segs[k].active /\ segs[k].start <= t /\ t < segs[k].end - 50

\* C5: a time update received while playing at a time t inside a removed
\* segment moves the playhead to the start of the next active segment after
\* it, or pauses when none follows; a time update received while paused
\* neither moves the playhead nor changes the pause; with cuts at 5 and 10 s
\* of 15 s and segment 1 removed, playing at t = 7 jumps to t = 10.
C5_SegmentSkip ==
  lastOp.name = "onTimeUpdate" =>
    LET t == lastOp.t
        segs == getSegments(video.duration)
        n == Len(segs)
    IN  /\ lastOp.paused => (video.paused /\ video.currentTime = t)
        /\ ~lastOp.paused =>
             \A k \in 1..n :
               InRemoved(segs, k, t) =>
                 IF \E j \in (k + 1)..n : segs[j].active
                 THEN /\ ~video.paused
                      /\ \E j \in (k + 1)..n :
                           /\ segs[j].active
                           /\ \A i \in (k + 1)..(j - 1) : ~segs[i].active
                           /\ video.currentTime = segs[j].start
                 ELSE video.paused /\ video.currentTime = t
        /\ ( /\ ~lastOp.paused /\ t = 7000
             /\ splitPoints = <<5000, 10000>> /\ video.duration = 15000
             /\ removedSegments = <<1>> )
             => video.currentTime = 10000

\* C5 witness: the example, a jump from 7 s to 10 s while playing
C5_Witness ==
  /\ lastOp.name = "onTimeUpdate"
  /\ ~lastOp.paused
  /\ lastOp.t = 7000
  /\ splitPoints = <<5000, 10000>>
  /\ removedSegments = <<1>>
  /\ video.currentTime = 10000
  /\ ~video.paused

\* the text of the word of SpecHistory after k edits
TypedText(k) == Transcript[1].text \o [i \in 1..k |-> "x"]

\* C11: the undo stack never holds more than MAX_UNDO snapshots and a push on
\* a full stack discards the oldest; after MAX_UNDO + 1 sequential edits the
\* stack holds MAX_UNDO snapshots, none of them the state before the first
\* edit; MAX_UNDO consecutive undos from there land on the state right after
\* the first edit, and one more undo changes nothing.
C11_BoundedHistory ==
  /\ [] /\ Len(undoStack) <= MAX_UNDO
        /\ ( /\ lastOp.name = "editWord"
             /\ fuel = MaxHistOps - (MAX_UNDO + 1)
             /\ words[1].text = TypedText(MAX_UNDO + 1) )
             => /\ Len(undoStack) = MAX_UNDO
                /\ undoStack[1].words[1].text = TypedText(1)
                /\ \A k \in 1..Len(undoStack) :
                     undoStack[k].words[1].text # TypedText(0)
        /\ ( /\ Len(redoStack) = MAX_UNDO
             /\ redoStack[1].words[1].text = TypedText(MAX_UNDO + 1) )
             => /\ words[1].text = TypedText(1)
                /\ undoStack = <<>>
        /\ ( /\ lastOp.name = "undo"
             /\ pre.nUndo = 0
             /\ pre.nRedo = MAX_UNDO )
             => /\ Editable = pre.e
                /\ undoStack = <<>>
                /\ Len(redoStack) = MAX_UNDO
  /\ [][ (Len(undoStack) = MAX_UNDO /\ Len(undoStack') = MAX_UNDO /\ redoStack' = <<>>
            /\ undoStack' # undoStack)
           => /\ SubSeq(undoStack', 1, MAX_UNDO - 1) = Tail(undoStack)
              /\ Recorded(undoStack'[MAX_UNDO]) = Editable ]_vars

\* C11 witness: MAX_UNDO + 1 edits, MAX_UNDO undos, and one undo more
C11_Witness ==
  /\ lastOp.name = "undo"
  /\ pre.nUndo = 0
  /\ pre.nRedo = MAX_UNDO
  /\ words[1].text = TypedText(1)
  /\ redoStack[1].words[1].text = TypedText(MAX_UNDO + 1)

\* C12: directly after one of the listed operations, or a words-per-group
\* change, has changed the editable state, the redo stack is empty.
C12_RedoCleared ==
  (lastOp.name \in SnapshotOps \cup {"onWpgChange"} /\ Editable # pre.e)
    => redoStack = <<>>

\* C13: undo on an empty undo stack and redo on an empty redo stack leave
\* words, groups, modes, split points, removed segments, style, selection and
\* both stacks unchanged.
C13_Underflow ==
  [][ ( \/ Step("undo") /\ undoStack = <<>>
        \/ Step("redo") /\ redoStack = <<>> )
        => /\ Editable' = Editable
           /\ selectedWordIndices' = selectedWordIndices
           /\ undoStack' = undoStack
           /\ redoStack' = redoStack ]_vars

\* C13 witness: with a word selected and nothing to undo or redo, a redo and
\* then an undo
C13_Witness ==
  /\ lastOp.name = "undo"
  /\ prevOp = "redo"
  /\ pre.nUndo = 0
  /\ pre.nRedo = 0
  /\ pre.selection # <<>>
  /\ selectedWordIndices = pre.selection

\* a selection of at least two indices without a gap
Mergeable(sel) ==
  LET S == Range(sel)
  IN  /\ Cardinality(S) >= 2
      /\ \A a \in S, b \in S : \A i \in a..b : i \in S

\* C14: splitBefore at position <= 0 or >= the length of the group,
\* mergeWithNext on the last group, mergeWithPrev on the first group and a
\* word merge asked for a selection that is not at least two contiguous
\* indices change neither words nor groups nor the two stacks (and the merge
\* dialog does not open).
C14_InvalidRange ==
  [][ ( \/ /\ Step("splitBefore")
           /\ \/ lastOp'.wi <= 0
              \/ lastOp'.wi >= Len(customGroups[lastOp'.gi + 1].word_indices)
        \/ Step("mergeWithNext") /\ lastOp'.gi = Len(customGroups) - 1
        \/ Step("mergeWithPrev") /\ lastOp'.gi = 0
        \/ Step("openMergeModal") /\ ~Mergeable(selectedWordIndices) )
        => /\ words' = words
           /\ customGroups' = customGroups
           /\ undoStack' = undoStack
           /\ redoStack' = redoStack
           /\ mergeContext' = mergeContext ]_vars

\* C14 witness: a merge asked for two selected words that are not neighbours
C14_Witness ==
  /\ lastOp.name = "openMergeModal"
  /\ Len(selectedWordIndices) = 2
  /\ Range(selectedWordIndices) \subseteq WordIndices
  /\ ~Mergeable(selectedWordIndices)
  /\ ~mergeContext.open
  /\ Len(undoStack) = pre.nUndo

\* C15: removeSplitPoint(i) with i outside 0 .. len(splitPoints)-1 leaves
\* words, groups, split points, removed segments and both stacks unchanged.
C15_InvalidIndex ==
  [][ ( /\ pending # <<>>
        /\ pending' = Tail(pending)
        /\ Head(pending).name = "removeSplitPoint"
        /\ Head(pending).index \notin 0..(Len(splitPoints) - 1) )
        => /\ words' = words
           /\ customGroups' = customGroups
           /\ splitPoints' = splitPoints
           /\ removedSegments' = removedSegments
           /\ undoStack' = undoStack
           /\ redoStack' = redoStack ]_vars

\* C16: a press on a group handle of the timeline in Custom mode that is
\* released without a move pushes no snapshot and leaves the redo stack
\* untouched.
C16_NoEffect ==
  [][ ( /\ Step("onWindowMouseUp")
        /\ lastOp.name = "onGroupHandleMouseDown"
        /\ pre.e.useCustomGroups )
        => /\ Len(undoStack') = pre.nUndo
           /\ Len(redoStack') = pre.nRedo ]_vars

\* the groups lying wholly before word index first are the same after the step
KeptBefore(first) ==
  \A k \in 1..Len(customGroups) :
    (\A j \in Range(customGroups[k].word_indices) : j < first)
      => k <= Len(customGroups') /\ customGroups'[k] = customGroups[k]

\* C17: in Custom mode editWord, applyStyle, clearStyle, the segment operations
\* and a words-per-group change leave the custom groups as they are, and
\* deleteWord and the word merge leave the groups before the edited words as
\* they are: none replaces the groups by a fresh auto-chunking or recomputes
\* their start and end.
C17_CustomPersistence ==
  [][ useCustomGroups =>
        /\ ( \/ Step("editWord") \/ Step("applyWordStyle")
             \/ Step("clearWordStyles") \/ Step("addSplitAtPlayhead")
             \/ Step("handleToggleSegment") \/ Step("handleRemoveSplit")
             \/ Step("onWpgChange")
             \/ (pending # <<>> /\ pending' = Tail(pending)) )
             => customGroups' = customGroups
        /\ Step("deleteWord") => KeptBefore(lastOp'.index)
        /\ (Step("confirmMerge") /\ words' # words)
             => KeptBefore(mergeContext.indices[1]) ]_vars

RECURSIVE KeptRanges(_, _)
KeptRanges(cuts, k) ==
  IF k >= Len(cuts) THEN <<>>
  ELSE (IF (k - 1) \in Range(removedSegments) THEN <<>>
        ELSE << <<cuts[k], cuts[k + 1]>> >>) \o KeptRanges(cuts, k + 1)

\* C19: the payload of a render carries the active-segment list only when at
\* least one but not all segments of the timeline are removed; the list is
\* then the [start, end] ranges of the segments that are not removed, in
\* timeline order; the custom group list is carried only in Custom mode.
C19_RenderPayload ==
  (lastOp.name = "startRender" /\ lastOp.posted) =>
    LET p == lastOp.payload
        cuts == <<0>> \o splitPoints \o <<video.duration>>
        nSegs == Len(cuts) - 1
        removed == { i \in 0..(nSegs - 1) : i \in Range(removedSegments) }
    IN  /\ "active_segments" \in DOMAIN p =>
             /\ removed # {}
             /\ removed # 0..(nSegs - 1)
             /\ p.active_segments = KeptRanges(cuts, 1)
             /\ Len(p.active_segments) = nSegs - Cardinality(removed)
        /\ "word_groups" \in DOMAIN p =>
             /\ useCustomGroups
             /\ p.word_groups = customGroups

\* C19 witness: a timeline cut at 5 s and 10 s with its middle segment removed
\* is rendered in Custom mode
C19_Witness ==
  /\ lastOp.name = "startRender" /\ lastOp.posted
  /\ "word_groups" \in DOMAIN lastOp.payload
  /\ "active_segments" \in DOMAIN lastOp.payload
  /\ lastOp.payload.active_segments = << <<0, 5000>>, <<10000, 15000>> >>

\* the words of a group's indices that exist, in the order of the indices
RECURSIVE Existing(_)
Existing(idxs) ==
  IF idxs = <<>> THEN <<>>
  ELSE (IF Head(idxs) \in WordIndices THEN <<words[Head(idxs) + 1]>> ELSE <<>>)
       \o Existing(Tail(idxs))

\* C20: in Custom mode getActiveGroups returns every group with the words of
\* its indices that still exist, and no returned group holds a missing word.
C20_StaleIndices ==
  useCustomGroups =>
    /\ Len(getActiveGroups) = Len(customGroups)
    /\ \A k \in 1..Len(customGroups) :
         /\ getActiveGroups[k].words = Existing(customGroups[k].word_indices)
         /\ \A j \in 1..Len(getActiveGroups[k].words) :
              IsWord(getActiveGroups[k].words[j])

\* C21: addSplitAtPlayhead at t adds nothing and pushes no snapshot when
\* t <= 0 or a split point lies within 0.05 s of t, and otherwise pushes a
\* snapshot of the state before and inserts t; the split points are always
\* strictly ascending, above 0 and at least 0.05 s apart.
C21_SplitPoints ==
  /\ [](\A k \in 1..Len(splitPoints) :
          /\ splitPoints[k] > 0
          /\ k > 1 => splitPoints[k] - splitPoints[k - 1] >= 50)
  /\ [][ Step("addSplitAtPlayhead") =>
           LET t == currentTime
           IN  IF t <= 0 \/ \E p \in Range(splitPoints) : Abs(p - t) < 50
               THEN /\ splitPoints' = splitPoints
                    /\ undoStack' = undoStack
                    /\ redoStack' = redoStack
               ELSE /\ \A p \in Range(splitPoints) : Abs(p - t) > 50
                    /\ Len(undoStack') = Len(undoStack) + 1
                    /\ Recorded(Last(undoStack')) = Editable
                    /\ Len(splitPoints') = Len(splitPoints) + 1
                    /\ Range(splitPoints') = Range(splitPoints) \cup {t} ]_vars

\* C21 witness: with cuts at 3 s and 5 s, a split 0.02 s after the second is
\* refused
C21_Witness ==
  /\ lastOp.name = "addSplitAtPlayhead"
  /\ lastOp.t = 5020
  /\ splitPoints = <<3000, 5000>>
  /\ Len(undoStack) = 2

\* C22: removeSplitPoint(i) with 0 <= i < len(splitPoints) pushes a snapshot
\* of the state before, removes the i-th split point and nothing else, and
\* empties the removed segments; an undo directly after it brings back the
\* split points and the removed segments as they were before the removal.
C22_RemoveSplitPoint ==
  /\ [][ ( /\ pending # <<>>
           /\ pending' = Tail(pending)
           /\ Head(pending).name = "removeSplitPoint"
           /\ Head(pending).index \in 0..(Len(splitPoints) - 1) )
           => LET i == Head(pending).index
              IN  /\ Len(splitPoints') = Len(splitPoints) - 1
                  /\ \A k \in 1..Len(splitPoints') :
                       splitPoints'[k] = IF k <= i THEN splitPoints[k]
                                         ELSE splitPoints[k + 1]
                  /\ removedSegments' = <<>>
                  /\ Len(undoStack') = Len(undoStack) + 1
                  /\ Recorded(Last(undoStack')) = Editable
                  /\ words' = words ]_vars
  /\ [][ ( /\ Step("undo")
           /\ lastOp.name = "removeSplitPoint"
           /\ lastOp.index \in 0..(Len(pre.e.splitPoints) - 1) )
           => /\ splitPoints' = pre.e.splitPoints
              /\ removedSegments' = pre.e.removedSegments ]_vars

\* C22 witness: of the cuts at 3 s and 5 s with the middle segment removed,
\* the first cut is deleted and the deletion undone
C22_Witness ==
  /\ lastOp.name = "undo"
  /\ prevOp = "removeSplitPoint"
  /\ splitPoints = <<3000, 5000>>
  /\ removedSegments = <<1>>
  /\ pre.e.splitPoints = <<5000>>
  /\ pre.e.removedSegments = <<>>

\* a step of the store's toggleSegment
ToggleStep ==
  /\ pending # <<>>
  /\ pending' = Tail(pending)
  /\ Head(pending).name = "toggleSegment"

\* C23: toggleSegment(i) puts i among the removed segments when it is absent
\* and takes it out when it is present, and changes no other index, no split
\* point, no word and no group; two calls in a row with the same i give back
\* the removed set; no index is ever held twice.
C23_ToggleSegment ==
  /\ [](Len(removedSegments) = Cardinality(Range(removedSegments)))
  /\ [][ ToggleStep =>
           LET i == Head(pending).index
           IN  /\ Range(removedSegments') =
                    IF i \in Range(removedSegments)
                    THEN Range(removedSegments) \ {i}
                    ELSE Range(removedSegments) \cup {i}
               /\ splitPoints' = splitPoints
               /\ words' = words
               /\ customGroups' = customGroups
               /\ ( lastOp.name = "toggleSegment" /\ lastOp.index = i )
                    => Range(removedSegments') = Range(pre.e.removedSegments) ]_vars

\* C23 witness: after a seek, a split and two clicks on a segment, the second
\* toggle of segment 0 directly follows the first
C23_Witness ==
  /\ lastOp.name = "toggleSegment"
  /\ prevOp = "toggleSegment"
  /\ lastOp.index = 0
  /\ fuel = MaxSplitOps - 4
  /\ pre.e.removedSegments = <<0>>
  /\ removedSegments = <<>>

\* the least and the greatest of a non-empty set of times
Least(S) == CHOOSE x \in S : \A y \in S : x <= y
Greatest(S) == CHOOSE x \in S : \A y \in S : x >= y

\* C24: the merge of a sorted contiguous selection of k >= 2 words puts one
\* word flagged as merged at the position of the first, starting at the least
\* start and ending at the greatest end of the merged words; the list loses
\* k - 1 words and the other words stay as they are; every word of the list
\* has start <= end after any run of editWord, deleteWord, merges, undo and
\* redo.
C24_MergeRange ==
  /\ [](\A k \in 1..Len(words) : words[k].start <= words[k].end)
  /\ [][ (Step("confirmMerge") /\ words' # words) =>
           LET idx == mergeContext.indices
               k == Len(idx)
               first == idx[1]
               old == SubSeq(words, first + 1, first + k)
           IN  /\ k >= 2
               /\ Len(words') = Len(words) - (k - 1)
               /\ words'[first + 1].merged
               /\ words'[first + 1].start = Least({old[j].start : j \in 1..k})
               /\ words'[first + 1].end = Greatest({old[j].end : j \in 1..k})
               /\ \A j \in 1..first : words'[j] = words[j]
               /\ \A j \in (first + 2)..Len(words') : words'[j] = words[j + k - 1] ]_vars

\* a split that the guard of splitBefore lets through
SplitStep ==
  /\ Step("splitBefore")
  /\ lastOp'.gi \in GroupIndices
  /\ lastOp'.wi > 0
  /\ lastOp'.wi < Len(customGroups[lastOp'.gi + 1].word_indices)

\* C25: splitBefore(g, pos) with 0 < pos < len(group g) puts two adjacent
\* groups in the place of group g: the first holds the first pos word indices,
\* keeps the start of g and ends at the end of the word just before the split;
\* the second holds the other indices, starts at the start of the split word
\* and keeps the end of g. There is one group more and every other group is
\* as it was.
C25_SplitBefore ==
  [][ SplitStep =>
        LET gi == lastOp'.gi
            pos == lastOp'.wi
            g == customGroups[gi + 1]
            n == Len(g.word_indices)
            a == customGroups'[gi + 1]
            b == customGroups'[gi + 2]
        IN  /\ Len(customGroups') = Len(customGroups) + 1
            /\ a.word_indices = SubSeq(g.word_indices, 1, pos)
            /\ a.start = g.start
            /\ a.end = words[g.word_indices[pos] + 1].end
            /\ b.word_indices = SubSeq(g.word_indices, pos + 1, n)
            /\ b.start = words[g.word_indices[pos + 1] + 1].start
            /\ b.end = g.end
            /\ \A j \in 1..gi : customGroups'[j] = customGroups[j]
            /\ \A j \in (gi + 3)..Len(customGroups') :
                 customGroups'[j] = customGroups[j - 1] ]_vars

\* a group whose timings were set by hand has been split in the middle, with
\* another group after it
C25_Witness ==
  /\ lastOp.name = "splitBefore"
  /\ Len(customGroups) = Len(pre.e.groups) + 1
  /\ Len(customGroups) >= 3
  /\ lastOp.gi = 0
  /\ pre.e.groups[1].start \in TimingInputs
  /\ Len(customGroups[1].word_indices) >= 2

\* the list in which the groups at (0-based) positions i and i + 1 have become
\* one: indices of the earlier then of the later, start of the earlier, end of
\* the later
Joined(groups, i) ==
  [ j \in 1..(Len(groups) - 1) |->
      IF j <= i THEN groups[j]
      ELSE IF j = i + 1
           THEN [ word_indices |-> groups[i + 1].word_indices \o groups[i + 2].word_indices,
                  start |-> groups[i + 1].start,
                  end |-> groups[i + 2].end ]
           ELSE groups[j + 1] ]

\* C26: mergeWithNext(g) and mergeWithPrev(g) put one group in the place of
\* two adjacent ones, with the indices of the earlier followed by those of the
\* later, the start of the earlier and the end of the later; mergeWithPrev(g)
\* leaves what mergeWithNext(g-1) leaves, snapshot included; and a
\* splitBefore(g, pos) followed at once by mergeWithNext(g) gives back the
\* group list as it was before the split.
C26_MergeAdjacent ==
  /\ [][ (Step("mergeWithNext") /\ lastOp'.gi < Len(customGroups) - 1) =>
           /\ customGroups' = Joined(customGroups, lastOp'.gi)
           /\ Len(undoStack') = Len(undoStack) + 1
           /\ Recorded(Last(undoStack')) = Editable
           /\ redoStack' = <<>> ]_vars
  /\ [][ (Step("mergeWithPrev") /\ lastOp'.gi > 0) =>
           /\ customGroups' = Joined(customGroups, lastOp'.gi - 1)
           /\ Len(undoStack') = Len(undoStack) + 1
           /\ Recorded(Last(undoStack')) = Editable
           /\ redoStack' = <<>> ]_vars
  /\ [][ ( /\ lastOp.name = "splitBefore"
           /\ customGroups # pre.e.groups
           /\ Step("mergeWithNext")
           /\ lastOp'.gi = lastOp.gi ) =>
           customGroups' = pre.e.groups ]_vars

\* a group whose end was set by hand has been split and merged again
C26_Witness ==
  /\ lastOp.name = "mergeWithNext"
  /\ prevOp = "splitBefore"
  /\ customGroups # pre.e.groups
  /\ customGroups[lastOp.gi + 1].end \in TimingInputs
  /\ Len(customGroups[lastOp.gi + 1].word_indices) >= 3

\* the last of three groups has been merged into the one before it
MergedWithPrev ==
  /\ lastOp.name = "mergeWithPrev"
  /\ lastOp.gi = 2
  /\ Len(customGroups) = 2
  /\ Len(pre.e.groups) = 3

\* the handler leaves the groups and both stacks alone
Rejected == UNCHANGED << customGroups, undoStack, redoStack >>

\* groups i and i + 1 (0-based) after the word at their common boundary went
\* from one to the other: e2 and l2 are the indices the earlier and the later
\* group hold afterwards
MovedAcross(i, e2, l2) ==
  /\ Len(customGroups') = Len(customGroups)
  /\ customGroups'[i + 1].word_indices = e2
  /\ customGroups'[i + 2].word_indices = l2
  /\ e2 # <<>> /\ l2 # <<>>
  /\ Flatten(GroupIndexLists(customGroups')) = Flatten(GroupIndexLists(customGroups))
  /\ customGroups'[i + 1].start = customGroups[i + 1].start
  /\ customGroups'[i + 1].end = words[Last(e2) + 1].end
  /\ customGroups'[i + 2].start = words[l2[1] + 1].start
  /\ customGroups'[i + 2].end = customGroups[i + 2].end
  /\ \A j \in 1..Len(customGroups) :
       j \notin {i + 1, i + 2} => customGroups'[j] = customGroups[j]
  /\ Len(undoStack') = Len(undoStack) + 1
  /\ Recorded(Last(undoStack')) = Editable

\* C27: moveFirstToPrev(g) and moveLastToNext(g) hand exactly one boundary
\* word index to the adjacent group and keep the order of all indices; with
\* fewer than 2 words in g or without that neighbour they change nothing and
\* take no snapshot; no group is ever empty. Of the timing only the two
\* fields at the boundary are recomputed: the start of the earlier group of
\* the pair, the end of the later one and every other group stay as they
\* were, hand-set values included.
C27_MoveBoundaryWord ==
  /\ [](\A j \in 1..Len(customGroups) : customGroups[j].word_indices # <<>>)
  /\ [][ Step("moveFirstToPrev") =>
           LET gi == lastOp'.gi
               ids == customGroups[gi + 1].word_indices
           IN  IF gi = 0 \/ Len(ids) < 2
               THEN Rejected
               ELSE MovedAcross(gi - 1,
                                Append(customGroups[gi].word_indices, ids[1]),
                                Tail(ids)) ]_vars
  /\ [][ Step("moveLastToNext") =>
           LET gi == lastOp'.gi
               ids == customGroups[gi + 1].word_indices
           IN  IF gi >= Len(customGroups) - 1 \/ Len(ids) < 2
               THEN Rejected
               ELSE MovedAcross(gi,
                                Front(ids),
                                <<Last(ids)>> \o customGroups[gi + 2].word_indices) ]_vars

\* the last word of a group went to the next group, whose end had been set by
\* hand and is still that value
C27_Witness ==
  /\ lastOp.name = "moveLastToNext"
  /\ customGroups # pre.e.groups
  /\ customGroups[lastOp.gi + 2].end \in TimingInputs
  /\ customGroups[lastOp.gi + 2].end # words[Last(customGroups[lastOp.gi + 2].word_indices) + 1].end

\* a move was refused for a group of one word that has the neighbour
MoveRefused ==
  /\ lastOp.name = "moveFirstToPrev"
  /\ lastOp.gi > 0
  /\ Len(customGroups[lastOp.gi + 1].word_indices) = 1

\* group gi (0-based) is at least 0.1 s long and does not start before 0
WellTimed(g) == g.end - g.start >= 100 /\ g.start >= 0

\* C28: after every change of a custom group's timing made by hand -- a drag
\* of its start handle, of its end handle or of its body on the timeline, a
\* typed start / end value, a nudge of start / end by 0.1 -- the group has
\* end - start >= 0.1 and start >= 0.
C28_TimingClamped ==
  /\ [][ (Step("setTiming") \/ Step("nudgeTiming")) =>
           WellTimed(customGroups'[lastOp'.gi + 1]) ]_vars
  /\ [][ (Step("onWindowMouseMove") /\ groupDrag.gi \in GroupIndices) =>
           WellTimed(customGroups'[groupDrag.gi + 1]) ]_vars

\* the same for the drags alone, of a group that was well timed when the
\* handle was taken and whose other end was not typed over during the drag
DragClamped ==
  [][ ( /\ Step("onWindowMouseMove")
        /\ groupDrag.gi \in GroupIndices
        /\ groupDrag.origEnd - groupDrag.origStart >= 100
        /\ groupDrag.origStart >= 0
        /\ groupDrag.mode = "start" =>
             customGroups[groupDrag.gi + 1].end = groupDrag.origEnd
        /\ groupDrag.mode = "end" =>
             customGroups[groupDrag.gi + 1].start = groupDrag.origStart ) =>
        WellTimed(customGroups'[groupDrag.gi + 1]) ]_vars

\* the caption part of a time-update notification has run and found a group
CaptionStep ==
  /\ Step("onTimeUpdate")
  /\ sync'.resolved
  /\ sync'.activeGroup # -1

\* C29: whenever a group is active at time t, the active word is the first
\* word of that group with start <= t <= end; when no word contains t it is
\* the last word of the group with start <= t (and none when no word has
\* started). In dynamic mode the output lists the words of the group in order
\* and marks the active word and no other.
C29_ActiveWord ==
  [][ CaptionStep =>
        LET t == video.currentTime
            ws == getActiveGroups[sync'.activeGroup + 1].words
            n == Len(ws)
            a == sync'.activeIdx + 1
            Contains(k) == ws[k].start <= t /\ t <= ws[k].end
            Started(k) == ws[k].start <= t
        IN  /\ a \in 0..n
            /\ (\E k \in 1..n : Contains(k)) =>
                 /\ a # 0 /\ Contains(a)
                 /\ \A j \in 1..(a - 1) : ~Contains(j)
            /\ ((\A k \in 1..n : ~Contains(k)) /\ (\E k \in 1..n : Started(k))) =>
                 /\ a # 0 /\ Started(a)
                 /\ \A j \in (a + 1)..n : ~Started(j)
            /\ (\A k \in 1..n : ~Started(k)) => a = 0
            /\ useDynamicMode =>
                 /\ Len(sync'.preview) = n
                 /\ \A k \in 1..n :
                      /\ sync'.preview[k].text = Shown(ws[k].text)
                      /\ sync'.preview[k].isActive <=> (k = a)
                 /\ Cardinality({k \in 1..n : sync'.preview[k].isActive}) <= 1 ]_vars

\* a notification in the 0.15 s after the end of a two-word group: no word
\* contains t and the second word, the last that has started, is marked
C29_Witness ==
  /\ lastOp.name = "onTimeUpdate"
  /\ lastOp.t = 4100
  /\ useDynamicMode
  /\ sync.resolved
  /\ sync.activeGroup = 0
  /\ sync.activeIdx = 1
  /\ Len(sync.preview) = 2
  /\ sync.preview[2].isActive
  /\ ~sync.preview[1].isActive

\* the key start + '_' + end of the group a notification at the current video
\* time finds, <<>> for none
ActiveKey ==
  LET gs == getActiveGroups
      gi == FindActiveGroup(gs, video.currentTime)
  IN  IF gi = -1 THEN <<>> ELSE <<gs[gi + 1].start, gs[gi + 1].end>>

\* the caption mode is another one after the step
ModeSwitched == useDynamicMode' # useDynamicMode

\* C30: over any sequence of time-update notifications the entrance signal
\* fires on the notification at which a group becomes the active group (after
\* no group or another group was active) and on no later notification while
\* that group stays active; the identity is the key start+end, which is reset
\* when no group is active and when the caption mode is switched.
C30_EntranceSignal ==
  \* the key decides, and is kept
  /\ [][ CaptionStep =>
           /\ sync'.entrance <=> (ActiveKey # sync.lastGroupKey)
           /\ sync'.lastGroupKey = ActiveKey ]_vars
  \* reset when no group is active
  /\ [][ (Step("onTimeUpdate") /\ ActiveKey = <<>>) =>
           (sync'.lastGroupKey = <<>> /\ ~sync'.entrance) ]_vars
  \* reset by the switch of the mode, and by nothing else but a notification
  /\ [][ ModeSwitched => sync'.lastGroupKey = <<>> ]_vars
  /\ [][ (~ModeSwitched /\ ~Step("onTimeUpdate")) =>
           sync'.lastGroupKey = sync.lastGroupKey ]_vars
  \* two notifications with nothing but seeks in between: the second fires
  \* exactly when the first found no group or another group
  /\ [][ ( /\ CaptionStep
           /\ lastOp.name = "onTimeUpdate"
              \/ (lastOp.name = "seek" /\ prevOp = "onTimeUpdate") ) =>
           (sync'.entrance <=> sync'.activeGroup # sync.activeGroup) ]_vars
  \* the first notification after a switch of the mode fires
  /\ [][ ( /\ CaptionStep
           /\ lastOp.name = "setSubtitleMode"
           /\ pre.e.useDynamicMode # useDynamicMode ) =>
           sync'.entrance ]_vars

\* the third notification in a row inside the same group: the signal fired on
\* the first and is silent now
C30_Witness ==
  /\ lastOp.name = "onTimeUpdate"
  /\ prevOp = "onTimeUpdate"
  /\ sync.resolved
  /\ sync.activeGroup # -1
  /\ ~sync.entrance
  /\ sync.lastGroupKey # <<>>
  /\ fuel <= MaxCaptionOps - 3

\* the signal fired again for the group that was already active, on the first
\* notification after a switch to the static mode
FiredAfterSwitch ==
  /\ lastOp.name = "onTimeUpdate"
  /\ prevOp = "setSubtitleMode"
  /\ ~useDynamicMode
  /\ sync.entrance
  /\ sync.activeGroup = 0

\* the caption of the group at 0-based position gi at time t, from the words
\* and the mode of the state: the spans of its words in dynamic mode, one
\* sentence of its words in static mode
CaptionFor(gi, t) ==
  LET ws == getActiveGroups[gi + 1].words
  IN  IF useDynamicMode
      THEN DynamicSpans(ws, 0, FindActiveWord(ws, t))
      ELSE << [ text |-> JoinSpace(ShownTexts(ws)),
                isActive |-> FALSE,
                style |-> "sentence" ] >>

\* C31: every time-update notification recomputes the caption from the
\* playback time and the state of that moment: in both modes, after a seek
\* and after an edit of a word of the active group (text edit, merge,
\* delete), the output of the next notification is the caption for the
\* current time and the current words.
C31_CaptionRecomputed ==
  [][ Step("onTimeUpdate") /\ sync'.resolved =>
        sync'.preview =
          IF sync'.activeGroup = -1 THEN <<>>
          ELSE CaptionFor(sync'.activeGroup, video.currentTime) ]_vars

\* the same for the notifications in dynamic mode alone
DynamicRecomputed ==
  [][ (Step("onTimeUpdate") /\ sync'.resolved /\ useDynamicMode) =>
        sync'.preview =
          IF sync'.activeGroup = -1 THEN <<>>
          ELSE CaptionFor(sync'.activeGroup, video.currentTime) ]_vars

\* C32: the snapshot is taken before every part of the mutation it labels:
\* for a switch of the caption mode and for the first timeline drag of a
\* group in Auto mode, the pushed snapshot holds the caption-mode flag and the
\* group-mode flag as they were before the action, and one undo brings the
\* previous caption mode and group mode back.
C32_SnapshotBeforeSwitch ==
  /\ [][ ((Step("setSubtitleMode") \/ Step("onGroupHandleMouseDown"))
            /\ undoStack' # undoStack) =>
           /\ Last(undoStack').useDynamicMode = useDynamicMode
           /\ Last(undoStack').useCustomGroups = useCustomGroups ]_vars
  /\ [][ ( /\ lastOp.name \in {"setSubtitleMode", "onGroupHandleMouseDown"}
           /\ Len(undoStack) = pre.nUndo + 1
           /\ Step("undo") ) =>
           /\ useDynamicMode' = pre.e.useDynamicMode
           /\ useCustomGroups' = pre.e.useCustomGroups ]_vars

\* the part of C32 about the caption mode alone
ModeSnapshotBefore ==
  [][ (Step("setSubtitleMode") /\ undoStack' # undoStack) =>
        Last(undoStack').useDynamicMode = useDynamicMode ]_vars

\* the part of C32 about the group mode alone
GroupModeSnapshotBefore ==
  [][ (Step("onGroupHandleMouseDown") /\ undoStack' # undoStack) =>
        Last(undoStack').useCustomGroups = useCustomGroups ]_vars

\* the callback of import('../store.js').then of a timeline click runs
ClickCallback ==
  /\ pending # <<>>
  /\ pending' = Tail(pending)
  /\ Head(pending).name \in {"toggleSegment", "removeSplitPoint"}

\* C33: the state is mutated inside the handler of the user input: for a
\* timeline click that toggles a segment or removes a split point no other
\* handler (undo, redo, addSplitAtPlayhead, another click) runs between the
\* click and the mutation, so the index acted upon denotes the segment or the
\* split point that was clicked.
C33_SynchronousMutation ==
  [][ ClickCallback =>
        /\ lastOp.name = (IF Head(pending).name = "toggleSegment"
                          THEN "handleToggleSegment" ELSE "handleRemoveSplit")
        /\ lastOp.index = Head(pending).index
        /\ splitPoints = pre.e.splitPoints
        /\ removedSegments = pre.e.removedSegments ]_vars

\* a toggle reaches the store for a segment that no longer exists: the click
\* was on the last segment and an undo took a split point away before the
\* callback ran
ToggledMissingSegment ==
  /\ lastOp.name = "toggleSegment"
  /\ prevOp = "undo"
  /\ lastOp.index > Len(splitPoints)
  /\ lastOp.index \in Range(removedSegments)

\* playback times for which the caption is compared
LeakTimes == { 0, 250, 450, 700, 1200, 5000 }

\* the step stays in Auto mode and changes the stored custom groups and
\* nothing else of the store, the stacks or the media element
OnlyCustomGroupsDiffer ==
  /\ ~useCustomGroups /\ ~useCustomGroups'
  /\ customGroups' # customGroups
  /\ UNCHANGED << currentView, activeTab, words, videoFilename,
                  selectedWordIndices, lastClickedIndex, useDynamicMode, style,
                  undoStack, redoStack, currentTime, splitPoints,
                  removedSegments, mergeContext, duration, video, pending,
                  sync, groupDrag, cutter >>

\* C34: two states in Auto mode that differ only in the stored custom group
\* list have the same active-groups view, the same caption for every playback
\* time and the same render payload.
C34_NoStaleLeak ==
  [][ OnlyCustomGroupsDiffer =>
        /\ getActiveGroups' = getActiveGroups
        /\ \A t \in LeakTimes : Caption(t)' = Caption(t)
        /\ RenderPayload' = RenderPayload ]_vars

\* an undo has brought Auto mode back while the Groups tab is open, and the
\* start of a stored group has been typed over there
C34_Witness ==
  /\ lastOp.name = "setTiming"
  /\ ~useCustomGroups
  /\ ~pre.e.useCustomGroups
  /\ customGroups # pre.e.groups
  /\ Len(words) >= 2

\* C35: both history stacks stay bounded under every interleaving of
\* snapshotting edits, undo and redo: the undo stack never holds more than
\* MAX_UNDO snapshots although redo pushes onto it without a test of the
\* capacity, the redo stack never holds more than MAX_UNDO, and undo and redo
\* leave the sum of the two lengths as it is.
C35_BoundedStacks ==
  /\ [](Len(undoStack) <= MAX_UNDO /\ Len(redoStack) <= MAX_UNDO)
  /\ [][ (Step("undo") \/ Step("redo")) =>
           Len(undoStack') + Len(redoStack') = Len(undoStack) + Len(redoStack) ]_vars

\* a redo has pushed the MAX_UNDO-th snapshot onto the undo stack, after edits
\* that had already made the stack overflow
C35_Witness ==
  /\ lastOp.name = "redo"
  /\ pre.nUndo = MAX_UNDO - 1
  /\ Len(undoStack) = MAX_UNDO
  /\ undoStack[1].words[1].text # TypedText(0)
  /\ Last(undoStack).label = "Undo"

\* instants of the timeline, between and beyond the playhead positions
Instants == { 1000, 4000, 5040, 9000 }

\* the instant x lies in a removed segment
IsCut(x) ==
  \E k \in 1..Len(getSegments(duration)) :
    LET seg == getSegments(duration)[k]
    IN  seg.start <= x /\ x < seg.end /\ ~seg.active

\* C36: a new split point does not change which parts of the timeline are
\* cut: every instant that lies in a removed segment before
\* addSplitAtPlayhead lies in a removed segment after it, and every instant
\* in an active segment stays in an active segment.
C36_SplitKeepsCuts ==
  [][ Step("addSplitAtPlayhead") =>
        \A x \in Instants : IsCut(x)' <=> IsCut(x) ]_vars

\* the part after the cut at 5.0 s was removed; a split added at 3.0 s has
\* made the removed index denote 3.0 .. 5.0 s instead
CutMoved ==
  /\ lastOp.name = "addSplitAtPlayhead"
  /\ pre.e.splitPoints = <<5000>>
  /\ pre.e.removedSegments = <<1>>
  /\ splitPoints = <<3000, 5000>>
  /\ removedSegments = <<1>>
  /\ IsCut(4000)
  /\ ~IsCut(9000)

\* every removed index is the index of a segment, and nothing is removed
\* without a split point
RemovedExist ==
  /\ \A k \in 1..Len(removedSegments) : removedSegments[k] \in 0..Len(splitPoints)
  /\ splitPoints = <<>> => removedSegments = <<>>

\* C37: after any sequence of addSplitAtPlayhead, removeSplitPoint,
\* toggleSegment on a displayed segment, undo and redo, every index of the
\* removed set is the index of an existing segment (0 <= index <= number of
\* split points), and the removed set is empty whenever there is no split
\* point.
C37_RemovedIndicesExist == RemovedExist

\* the callback of a click runs after another handler has run in between
LateCallback ==
  /\ ClickCallback
  /\ ~ ( /\ lastOp.name \in {"handleToggleSegment", "handleRemoveSplit"}
         /\ lastOp.index = Head(pending).index
         /\ Len(pending) = 1 )

\* the same of a snapshot of the history
SnapshotExists(snap) ==
  /\ \A k \in 1..Len(snap.removedSegments) :
        snap.removedSegments[k] \in 0..Len(snap.splitPoints)
  /\ snap.splitPoints = <<>> => snap.removedSegments = <<>>

\* the same of the editor and of every snapshot undo or redo can restore
RemovedExistEverywhere ==
  /\ RemovedExist
  /\ \A k \in 1..Len(undoStack) : SnapshotExists(undoStack[k])
  /\ \A k \in 1..Len(redoStack) : SnapshotExists(redoStack[k])

\* the same when the callback of every click runs before the next handler:
\* no step but a late callback breaks it
RemovedExistWhenPrompt ==
  [][ (RemovedExistEverywhere /\ ~LateCallback) => RemovedExistEverywhere' ]_vars

\* a segment was removed by a click whose callback ran at once
RemovedPromptly ==
  /\ lastOp.name = "toggleSegment"
  /\ prevOp = "handleToggleSegment"
  /\ removedSegments # <<>>
  /\ RemovedExistEverywhere

\* the windows of the groups do not overlap and follow each other
WindowsInOrder(groups) ==
  /\ \A k \in 1..Len(groups) : groups[k].start <= groups[k].end
  /\ \A k \in 1..(Len(groups) - 1) : groups[k].end < groups[k + 1].start

\* C38: the 0.15 s of grace bridge gaps only: whenever the playback time t
\* lies inside the window start <= t <= end of a group, that group is the one
\* resolved as active, even if the group before it ended less than 0.15 s
\* before t (the windows of the groups not overlapping, in list order).
C38_GraceOnlyBridges ==
  [][ (Step("onTimeUpdate") /\ sync'.resolved /\ WindowsInOrder(getActiveGroups)) =>
        LET groups == getActiveGroups
            t == video.currentTime
        IN  \A k \in 1..Len(groups) :
              (groups[k].start <= t /\ t <= groups[k].end) =>
                sync'.activeGroup = k - 1 ]_vars

\* the same, where no earlier group ended less than 0.15 s before t
GraceBridgesFreeWindow ==
  [][ (Step("onTimeUpdate") /\ sync'.resolved /\ WindowsInOrder(getActiveGroups)) =>
        LET groups == getActiveGroups
            t == video.currentTime
        IN  \A k \in 1..Len(groups) :
              ( /\ groups[k].start <= t /\ t <= groups[k].end
                /\ \A j \in 1..(k - 1) : t > groups[j].end + GRACE ) =>
                sync'.activeGroup = k - 1 ]_vars

\* at 0.52 s, inside the window 0.5 .. 0.9 s of the second group, the first
\* group (0 .. 0.4 s) is the one resolved
StaleGroupResolved ==
  /\ lastOp.name = "onTimeUpdate"
  /\ video.currentTime = 520
  /\ Len(getActiveGroups) = 3
  /\ WindowsInOrder(getActiveGroups)
  /\ getActiveGroups[2].start = 500 /\ getActiveGroups[2].end = 900
  /\ getActiveGroups[1].end = 400
  /\ sync.resolved
  /\ sync.activeGroup = 0

\* the answer 'done' of a poll is being applied to the editor
AppliesCut ==
  /\ Step("poll resumed")
  /\ lastOp'.status = "done"

\* the number of snapshots with the label 'Cut silence' in a stack
RECURSIVE CutSnapshots(_)
CutSnapshots(stack) ==
  IF stack = <<>> THEN 0
  ELSE (IF Head(stack).label = "Cut silence" THEN 1 ELSE 0) + CutSnapshots(Tail(stack))

\* C39: the result of a finished silence-cut job is applied to the editor at
\* most once per job: under any interleaving of the status polls (one can
\* still be in flight when the next is started) with the job reaching 'done',
\* the word timestamps are remapped once, one 'Cut silence' snapshot is
\* pushed, and no poll result is applied after polling was stopped.
C39_CutAppliedOnce ==
  [][ AppliesCut =>
        /\ cutter.pollTimer = lastOp'.job
        /\ \A k \in 1..Len(cutter.applied) : cutter.applied[k] # lastOp'.job ]_vars

\* the same as long as no poll was started while another was in flight
CutAppliedOnceInTurn ==
  [][ (AppliesCut /\ ~cutter'.overlapped) =>
        /\ cutter.pollTimer = lastOp'.job
        /\ \A k \in 1..Len(cutter.applied) : cutter.applied[k] # lastOp'.job ]_vars

\* one job, two polls in flight when it was done: its result was applied
\* twice, the second time after polling had been stopped, and the words hi
\* 0-0.4, yo 0.5-0.9, ok 1.0-1.5 went to yo 0.4-0.8, ok 0.8-1.3 and then to
\* yo 0.4-0.7, ok 0.7-1.1
CutAppliedTwice ==
  /\ lastOp.name = "poll resumed"
  /\ ~lastOp.polling
  /\ cutter.applied = <<1, 1>>
  /\ CutSnapshots(undoStack) = 2
  /\ Len(words) = 3
  /\ words[2].start = 400 /\ words[2].end = 700
  /\ words[3].start = 700 /\ words[3].end = 1100

\* one poll at a time: the result of the job was applied once
CutAppliedInTurn ==
  /\ lastOp.name = "poll resumed"
  /\ lastOp.polling
  /\ ~cutter.overlapped
  /\ cutter.applied = <<1>>
  /\ CutSnapshots(undoStack) = 1
  /\ cutter.pollTimer = 0
  /\ Len(words) = 3
  /\ words[2].start = 400 /\ words[2].end = 800

====
